---- MODULE Spec2Model ----
(***************************************************************************)
(* Job-description matching of the resume database system (src/app.py).    *)
(* Texts are sequences of one-character strings, so that lowercasing,      *)
(* tokenising, substring containment and occurrence counting are computed  *)
(* character by character, the way the Python code computes them.          *)
(* Scores are counted in half points (a matched keyword is worth 2 halves, *)
(* a technology tag 4, a skill tag 3), because the code adds 1, 2 and 1.5. *)
(***************************************************************************)
EXTENDS Integers, Sequences, FiniteSets, TLC

(***************************************************************************)
(* Characters and the str methods the matcher uses.                        *)
(***************************************************************************)
UpperLetters ==
    <<"A","B","C","D","E","F","G","H","I","J","K","L","M",
      "N","O","P","Q","R","S","T","U","V","W","X","Y","Z">>

LowerLetters ==
    <<"a","b","c","d","e","f","g","h","i","j","k","l","m",
      "n","o","p","q","r","s","t","u","v","w","x","y","z">>

Digits == {"0","1","2","3","4","5","6","7","8","9"}

UpperSet == {UpperLetters[i] : i \in 1..Len(UpperLetters)}

LowerSet == {LowerLetters[i] : i \in 1..Len(LowerLetters)}

\* str.lower() on one character
ToLower ==
    LET index == [c \in UpperSet |-> CHOOSE i \in 1..Len(UpperLetters) : UpperLetters[i] = c]
    IN  [c \in UpperSet |-> LowerLetters[index[c]]]

LowerChar(c) == IF c \in UpperSet THEN ToLower[c] ELSE c

\* a sequence given as a function on 1..n, with its elements worked out once
List(f) == SubSeq(f, 1, Len(f))

\* str.lower()
Lower(text) == List([i \in 1..Len(text) |-> LowerChar(text[i])])

\* [a-zA-Z] of the regular expression
IsAlpha(c) == c \in UpperSet \/ c \in LowerSet

\* \w of the regular expression: \b is the border between \w and non-\w
IsWordChar(c) == IsAlpha(c) \/ c \in Digits \/ c = "_"

\* does sub occur in text at position i (1-based)
OccursAt(text, sub, i) ==
    /\ i + Len(sub) - 1 <= Len(text)
    /\ \A k \in 1..Len(sub) : text[i + k - 1] = sub[k]

\* Python's `sub in text`
Contains(text, sub) == \E i \in 1..(Len(text) - Len(sub) + 1) : OccursAt(text, sub, i)

\* the first position from i on at which sub occurs in text; 0 if none
NextOccurrence(text, sub, i) ==
    LET found == {j \in i..(Len(text) - Len(sub) + 1) : OccursAt(text, sub, j)}
    IN  IF found = {} THEN 0 ELSE CHOOSE j \in found : \A k \in found : j <= k

\* str.count(sub): non-overlapping occurrences, scanned from the left
RECURSIVE CountFrom(_, _, _)
CountFrom(text, sub, i) ==
    LET j == NextOccurrence(text, sub, i)
    IN  IF j = 0 THEN 0 ELSE 1 + CountFrom(text, sub, j + Len(sub))

StrCount(text, sub) == IF sub = <<>> THEN Len(text) + 1 ELSE CountFrom(text, sub, 1)

\* the positions 1..n in order
Positions(n) == List([i \in 1..n |-> i])

\* the positions at which a run of \w characters starts, in order
RunStarts(text) ==
    SelectSeq(Positions(Len(text)), LAMBDA i :
        IsWordChar(text[i]) /\ (i = 1 \/ ~IsWordChar(text[i - 1])))

\* last index of the run of \w characters that starts at i
RunEnd(text, i) ==
    CHOOSE j \in i..Len(text) :
        /\ \A k \in i..j : IsWordChar(text[k])
        /\ (j = Len(text) \/ ~IsWordChar(text[j + 1]))

\* shortest token [a-zA-Z]{2,} accepts
MinWordLen == 2

\* re.findall(r'\b[a-zA-Z]{2,}\b', text): the runs of word characters that
\* are all letters and at least two long; a run holding a digit or an
\* underscore has no word boundary inside it and yields nothing
FindWords(text) ==
    LET starts == RunStarts(text)
        runs == List([r \in 1..Len(starts) |->
                         SubSeq(text, starts[r], RunEnd(text, starts[r]))])
    IN  SelectSeq(runs, LAMBDA run :
            Len(run) >= MinWordLen /\ \A k \in 1..Len(run) : IsAlpha(run[k]))

\* the first n elements, Python's seq[:n]
Take(seq, n) == SubSeq(seq, 1, IF Len(seq) < n THEN Len(seq) ELSE n)

\* a " ".join of texts
RECURSIVE JoinSpace(_)
JoinSpace(parts) ==
    IF parts = <<>> THEN <<>>
    ELSE IF Len(parts) = 1 THEN parts[1]
    ELSE parts[1] \o <<" ">> \o JoinSpace(Tail(parts))

(***************************************************************************)
(* list.sort(key=..., reverse=True): Python's sort is stable, also with    *)
(* reverse=True, so equal keys keep their order.  SortedIdx gives the      *)
(* indices of `keys` in the order the sorted list has them.                *)
(***************************************************************************)
\* a sort that is not stable: among equal keys the later element comes first
UnstablePlace(keys, i) ==
    Cardinality({j \in 1..Len(keys) : keys[j] > keys[i]})
        + Cardinality({j \in (i + 1)..Len(keys) : keys[j] = keys[i]}) + 1

\* the place element i takes: behind every larger key and behind the equal
\* keys that stand before it
SortedPlace(keys, i) ==
    Cardinality({j \in 1..Len(keys) : keys[j] > keys[i]})
        + Cardinality({j \in 1..(i - 1) : keys[j] = keys[i]}) + 1

\* the indices by place
ByPlace(place) == List([r \in 1..Len(place) |-> CHOOSE i \in 1..Len(place) : place[i] = r])

SortedIdx(keys) == ByPlace(List([i \in 1..Len(keys) |-> SortedPlace(keys, i)]))

(***************************************************************************)
(* list(set(words)): the distinct words in the iteration order of a set of *)
(* str.  That order follows the str hashes, which CPython salts per        *)
(* process; it is fixed within a process and unspecified across processes. *)
(* hash_seed stands for the salt: the orders it selects are the rotations  *)
(* of the first-occurrence order and their reversals.                      *)
(***************************************************************************)
\* the words without repetitions, each at its first occurrence
Distinct(words) ==
    LET first == SelectSeq(Positions(Len(words)), LAMBDA i :
                     \A k \in 1..(i - 1) : words[k] # words[i])
    IN  List([r \in 1..Len(first) |-> words[first[r]]])

Reverse(seq) == List([i \in 1..Len(seq) |-> seq[Len(seq) + 1 - i]])

\* seq turned left by r places
Rotate(seq, r) == List([i \in 1..Len(seq) |-> seq[((i - 1 + r) % Len(seq)) + 1]])

\* the order seed gives the distinct words d
SeedOrder(d, seed) ==
    IF d = <<>> THEN <<>>
    ELSE IF seed % 2 = 1 THEN Reverse(Rotate(d, (seed \div 2) % Len(d)))
    ELSE Rotate(d, (seed \div 2) % Len(d))

SetOrder(words, seed) == SeedOrder(Distinct(words), seed)

(***************************************************************************)
(* extract_keywords, the frequency extractor.  src/app.py defines the name *)
(* twice; the later definition (line 1731) is the one every caller reaches *)
(* at run time.                                                            *)
(***************************************************************************)
stop_words == {
    <<"t","h","e">>, <<"a">>, <<"a","n">>, <<"a","n","d">>, <<"o","r">>, <<"b","u","t">>,
    <<"i","n">>, <<"o","n">>, <<"a","t">>, <<"t","o">>, <<"f","o","r">>, <<"o","f">>,
    <<"w","i","t","h">>, <<"b","y">>, <<"i","s">>, <<"a","r","e">>, <<"w","a","s">>,
    <<"w","e","r","e">>, <<"b","e">>, <<"b","e","e","n">>, <<"h","a","v","e">>,
    <<"h","a","s">>, <<"h","a","d">>, <<"w","i","l","l">>, <<"w","o","u","l","d">>,
    <<"s","h","o","u","l","d">>, <<"c","o","u","l","d">>, <<"m","a","y">>,
    <<"m","i","g","h","t">>, <<"c","a","n">>, <<"t","h","i","s">>, <<"t","h","a","t">>,
    <<"t","h","e","s","e">>, <<"t","h","o","s","e">>, <<"i">>, <<"y","o","u">>, <<"h","e">>,
    <<"s","h","e">>, <<"i","t">>, <<"w","e">>, <<"t","h","e","y">>, <<"o","u","r">>,
    <<"y","o","u","r">>, <<"t","h","e","i","r">>, <<"h","i","s">>, <<"h","e","r">>,
    <<"i","t","s">> }

\* keyword_freq[:50]
TopKeywords == 50

\* an extractor that filters nothing
AllWords(words) == words

\* [word for word in words if word not in stop_words]
NotStopWords(words) == SelectSeq(words, LAMBDA w : w \notin stop_words)

\* an extractor that returns the whole sorted list
Uncut(sorted) == sorted

\* keyword_freq[:50] of the sorted list
CutKeywords(sorted) == Take(sorted, TopKeywords)

\* seq in the order of the indices
Permuted(seq, order) == List([i \in 1..Len(order) |-> seq[order[i]]])

\* an extractor that leaves the keywords in the order of the set
Unsorted(lowered, keywords) == keywords

\* keyword_freq.sort(key=lambda x: x[1], reverse=True), the words of it
SortByFrequency(lowered, keywords) ==
    Permuted(keywords,
             SortedIdx(List([i \in 1..Len(keywords) |-> StrCount(lowered, keywords[i])])))

\* extract_keywords on the lowercased text
KeywordsOfLowered(lowered, seed) ==
    CutKeywords(SortByFrequency(lowered, SetOrder(NotStopWords(FindWords(lowered)), seed)))

extract_keywords(text, seed) == KeywordsOfLowered(Lower(text), seed)

(***************************************************************************)
(* Column values.  A TEXT column holds a str or NULL; an f-string renders  *)
(* None as "None", and `if value:` is false for None and for "".           *)
(***************************************************************************)
None == [none |-> TRUE]

Str(text) == [none |-> FALSE, s |-> text]

\* f"{value}"
Format(value) == IF value.none THEN <<"N","o","n","e">> ELSE value.s

\* bool(value)
Truthy(value) == ~value.none /\ value.s # <<>>

(***************************************************************************)
(* json.dumps of a list of str, and json.loads of a document.  The parser  *)
(* reads the documents json.dumps writes and the other documents that can  *)
(* be written with the model's characters: a list of strings, a lone       *)
(* string (iterating it yields its characters), and everything else, on    *)
(* which json.loads or the loop over its result raises.                    *)
(***************************************************************************)
RECURSIVE JoinQuoted(_)
JoinQuoted(tags) ==
    IF tags = <<>> THEN <<>>
    ELSE <<"\"">> \o tags[1] \o <<"\"">>
         \o (IF Len(tags) = 1 THEN <<>> ELSE <<",", " ">> \o JoinQuoted(Tail(tags)))

json_dumps(tags) == <<"[">> \o JoinQuoted(tags) \o <<"]">>

JsonError == [ok |-> FALSE, value |-> <<>>]

JsonOk(tags) == [ok |-> TRUE, value |-> tags]

RECURSIVE SkipWs(_, _)
SkipWs(text, i) == IF i <= Len(text) /\ text[i] = " " THEN SkipWs(text, i + 1) ELSE i

\* index of the quote that closes a string whose body starts at i; 0 if none
RECURSIVE CloseQuote(_, _)
CloseQuote(text, i) ==
    IF i > Len(text) \/ text[i] = "\\" THEN 0
    ELSE IF text[i] = "\"" THEN i
    ELSE CloseQuote(text, i + 1)

RECURSIVE ParseElems(_, _, _)
ParseElems(text, i, acc) ==
    IF i > Len(text) \/ text[i] # "\"" THEN JsonError
    ELSE LET j == CloseQuote(text, i + 1)
         IN  IF j = 0 THEN JsonError
             ELSE LET acc2 == Append(acc, SubSeq(text, i + 1, j - 1))
                      k == SkipWs(text, j + 1)
                  IN  IF k > Len(text) THEN JsonError
                      ELSE IF text[k] = "]"
                           THEN (IF SkipWs(text, k + 1) > Len(text) THEN JsonOk(acc2)
                                 ELSE JsonError)
                      ELSE IF text[k] = ","
                           THEN ParseElems(text, SkipWs(text, k + 1), acc2)
                      ELSE JsonError

json_loads(text) ==
    LET i == SkipWs(text, 1)
    IN  IF i > Len(text) THEN JsonError
        ELSE IF text[i] = "["
             THEN LET k == SkipWs(text, i + 1)
                  IN  IF k <= Len(text) /\ text[k] = "]"
                      THEN (IF SkipWs(text, k + 1) > Len(text) THEN JsonOk(<<>>)
                            ELSE JsonError)
                      ELSE ParseElems(text, k, <<>>)
        ELSE IF text[i] = "\""
             THEN LET j == CloseQuote(text, i + 1)
                  IN  IF j = 0 \/ SkipWs(text, j + 1) <= Len(text) THEN JsonError
                      ELSE JsonOk(List([k \in 1..(j - i - 1) |-> <<text[i + k]>>]))
        ELSE JsonError

(***************************************************************************)
(* The data the model runs on: job descriptions, stored components and     *)
(* stored work items (rows of resume_ready_work_items), in families of     *)
(* job descriptions and the lists of items they are matched against.       *)
(***************************************************************************)
\* words a short job description is made of: a stop word, a keyword and a
\* capitalised keyword
JobWords == {<<"t","h","e">>, <<"v","p","n">>, <<"P","C">>}

\* most words of an enumerated job description
MaxJobWords == 2

\* most stored items (components and work items together)
MaxItems == 2

\* most stored items beside a long job description
MaxLongItems == 1

\* orders list(set(...)) is modelled with
HashSeeds == 2

\* words of the longest job description: one more than the extractor keeps
LongWords == 51

\* words of the long job description a stored component repeats
BulkWords == 29

SeqsUpTo(S, n) == UNION {[1..k -> S] : k \in 0..n}

\* the lists of at most MaxItems items of a pool
Lists(pool) == SeqsUpTo(pool, MaxItems)

\* letters of the words of a long job description; no two of them spell a
\* stop word
LongLetters == <<"c","d","g","k","l","m","q","x">>

\* the i-th word of a long job description
LongWord(i) ==
    <<LongLetters[((i - 1) \div Len(LongLetters)) + 1],
      LongLetters[((i - 1) % Len(LongLetters)) + 1]>>

\* n distinct words, each once, separated by blanks
LongText(n) ==
    List([p \in 1..(3 * n - 1) |->
             IF p % 3 = 0 THEN " " ELSE LongWord(((p - 1) \div 3) + 1)[((p - 1) % 3) + 1]])

Component(title, content, keywords) ==
    [title |-> title, content |-> content, keywords |-> keywords]

\* a project, with the technology and skill columns as given
Rollout(technologies_used, skills_demonstrated) ==
    [title |-> <<"S","e","r","v","i","c","e","N","o","w"," ","r","o","l","l","o","u","t">>,
     description |-> Str(<<"a","d","m","i","n">>),
     technologies_used |-> technologies_used,
     skills_demonstrated |-> skills_demonstrated,
     item_type |-> "project"]

\* a work order, with the technology and skill columns as given
WorkOrder(title, technologies_used, skills_demonstrated) ==
    [title |-> title,
     description |-> None,
     technologies_used |-> technologies_used,
     skills_demonstrated |-> skills_demonstrated,
     item_type |-> "work_order"]

\* short job descriptions against short items
ShortFamily ==
    [jobs |-> {JoinSpace(ws) : ws \in SeqsUpTo(JobWords, MaxJobWords)}
                  \cup {<<"v","p"," ","v","p","n">>, <<" ">>,
                        <<"v","p"," ","v","p","n"," ","v","p","n">>},
     components |-> Lists(
         { Component(<<"v","p","n">>, <<"P","C"," ","s","e","t","u","p">>, None),
           Component(<<"v","p">>, <<"t","h","e">>, Str(json_dumps(<<(<<"p","c">>)>>))) }),
     work_items |-> Lists(
         { WorkOrder(<<"v","p","n">>,
                     Str(json_dumps(<< <<"P","C">>, <<"P","C">> >>)),
                     Str(json_dumps(<<(<<"v","p","n">>)>>))),
           \* a tag list holding the empty tag
           WorkOrder(<<"p","c">>, Str(json_dumps(<<(<<>>)>>)), None),
           \* a technology column that is not a JSON document
           WorkOrder(<<"v","p">>, Str(<<"v","p","n">>), None) }),
     most |-> MaxItems]

\* a posting that names a technology, against projects that differ in one tag
RolloutFamily ==
    [jobs |-> {<<"n","e","e","d"," ","S","e","r","v","i","c","e","N","o","w",
                 " ","a","d","m","i","n">>},
     components |-> Lists({}),
     work_items |-> Lists(
         { Rollout(Str(json_dumps(<<>>)), None),
           Rollout(Str(json_dumps(<<(<<"S","e","r","v","i","c","e","N","o","w">>)>>)), None),
           Rollout(Str(json_dumps(<<(<<"s","e","r","v","i","c","e","n","o","w">>)>>)), None),
           Rollout(Str(json_dumps(<<>>)), Str(json_dumps(<<(<<"a","d","m","i","n">>)>>))) }),
     most |-> MaxItems]

\* the substring scoring example
DesktopJob == <<"w","i","n","d","o","w","s"," ","s","u","p","p","o","r","t">>

DesktopComponent ==
    Component(<<"d","e","s","k","t","o","p"," ","s","u","p","p","o","r","t">>,
              <<"f","o","r"," ","w","i","n","d","o","w","s"," ","s","y","s","t","e","m","s">>,
              Str(<<>>))

DesktopFamily ==
    [jobs |-> {DesktopJob},
     components |-> Lists({DesktopComponent}),
     work_items |-> Lists({}),
     most |-> MaxItems]

\* a job description with more distinct words than the extractor keeps,
\* against a component that repeats the first of them
LongFamily ==
    [jobs |-> {LongText(LongWords)},
     components |->
         Lists({ Component(<<"b","a","t","c","h">>, LongText(BulkWords), Str(<<>>)) }),
     work_items |-> Lists({}),
     most |-> MaxLongItems]

\* matches[:20]
TopMatches == 20

\* component_matches[:10]
TopComponentMatches == 10

\* work_order_matches[:10]
TopWorkOrderMatches == 10

\* the cut of work_order_matches applied to project_matches as well
SameCutForProjects == TopWorkOrderMatches

\* project_matches[:5]
TopProjectMatches == 5

\* a posting that names a keyword, a project role and the tag of the sixth
\* stored row
CrowdJob == <<"v","p","n"," ","a","d","m","i","n"," ","c","m">>

\* the i-th of many components: one title and content, told apart by the
\* keywords column
CrowdComponent(i) == Component(<<"v","p","n">>, <<>>, Str(LongWord(i)))

\* the i-th of many work orders, told apart by the technology tag
CrowdOrder(i) == WorkOrder(<<"v","p","n">>, Str(json_dumps(<<LongWord(i)>>)), None)

\* the i-th of many projects, told apart by the technology tag
CrowdProject(i) == Rollout(Str(json_dumps(<<LongWord(i)>>)), None)

CrowdComponents(n) == List([i \in 1..n |-> CrowdComponent(i)])

CrowdWork(orders, projects) ==
    List([i \in 1..orders |-> CrowdOrder(i)]) \o List([i \in 1..projects |-> CrowdProject(i)])

\* one row more than each list of a response holds
CrowdFamily ==
    [jobs |-> {CrowdJob},
     components |-> { CrowdComponents(TopComponentMatches + 1),
                      CrowdComponents(TopMatches + 1) },
     work_items |-> { <<>>, CrowdWork(TopWorkOrderMatches + 1, TopProjectMatches + 1) },
     most |-> TopMatches + TopWorkOrderMatches + TopProjectMatches + 3]

Families == {ShortFamily, RolloutFamily, DesktopFamily, LongFamily, CrowdFamily}

(***************************************************************************)
(* Scoring.  A score is kept in half points.                               *)
(***************************************************************************)
\* score += 1
KeywordPoints == 2

\* score += 2
TechPoints == 4

\* score += 1.5
SkillPoints == 3

\* min(100, ...)
MaxPercentage == 100

Min(a, b) == IF a < b THEN a ELSE b

Max(a, b) == IF a > b THEN a ELSE b

\* The <<score in halves, total>> pairs with score < total <= 50 on which the
\* double-precision product (score / total) * 100 falls just below the
\* integer it equals in exact arithmetic (14.5/25, 14.5/50, 28.5/50 and
\* 29/50 give 57.99.., 28.99.., 56.99.. and 57.99..); on every other pair
\* of that range int() of the product is the floor of the exact quotient.
FloatShortfall == {<<29, 25>>, <<29, 50>>, <<57, 50>>, <<58, 50>>}

\* round(x) for x = num / den >= 0: the nearest integer, a tie to the even one
RoundHalfEven(num, den) ==
    LET q == num \div den
        r == num % den
    IN  IF 2 * r < den THEN q
        ELSE IF 2 * r > den THEN q + 1
        ELSE IF q % 2 = 0 THEN q ELSE q + 1

\* round((score / total) * 100) in place of int(...)
RoundedPercent(score, total) == RoundHalfEven(50 * score, total)

\* int((score / total) * 100) for total > 0
IntPercent(score, total) ==
    ((50 * score) \div total) - (IF <<score, total>> \in FloatShortfall THEN 1 ELSE 0)

\* a percentage without the cap of min(100, ...)
UncappedPercentage(score, total) == IntPercent(score, total)

\* min(100, int((score / total) * 100))
MatchPercentage(score, total) == Min(MaxPercentage, IntPercent(score, total))

\* whole-word matching in place of containment: the keywords that are words
\* of the searchable text
WholeWordMatches(keywords, searchable_text) ==
    SelectSeq(keywords, LAMBDA k :
        \E i \in 1..Len(FindWords(searchable_text)) :
            FindWords(searchable_text)[i] = Lower(k))

\* the keywords that occur in the searchable text, in keyword order
MatchedKeywords(keywords, searchable_text) ==
    SelectSeq(keywords, LAMBDA k : Contains(searchable_text, Lower(k)))

\* a loop `if tech in job_lower`, which leaves the tag as it is written
SameCaseTagHits(tags, job_lower) ==
    Cardinality({i \in 1..Len(tags) : Contains(job_lower, tags[i])})

\* how many entries of a tag list occur in job_lower: the loop
\* `for tech in technologies: if tech.lower() in job_lower`
TagHits(tags, job_lower) ==
    Cardinality({i \in 1..Len(tags) : Contains(job_lower, Lower(tags[i]))})

NoBonus == [ok |-> TRUE, bonus |-> 0]

\* the bonus of a decoded tag column; ok is FALSE when decoding or
\* iterating raised
BonusOf(doc, job_lower, points) ==
    IF doc.ok THEN [ok |-> TRUE, bonus |-> points * TagHits(doc.value, job_lower)]
    ELSE [ok |-> FALSE, bonus |-> 0]

\* a tag counted like a keyword, whatever the points of its column
UnweightedTagBonus(field, job_lower, points) ==
    IF Truthy(field) THEN BonusOf(json_loads(field.s), job_lower, KeywordPoints)
    ELSE NoBonus

\* the bonus of one tag column: nothing for a NULL or empty column
TagBonus(field, job_lower, points) ==
    IF Truthy(field) THEN BonusOf(json_loads(field.s), job_lower, points) ELSE NoBonus

\* searchable_text of match_items_to_job
SearchableText(item, item_type) ==
    IF item_type = "component"
    THEN Lower(item.title \o <<" ">> \o item.content \o <<" ">> \o Format(item.keywords))
    ELSE Lower(item.title \o <<" ">> \o Format(item.description) \o <<" ">>
               \o Format(item.technologies_used) \o <<" ">>
               \o Format(item.skills_demonstrated))

\* the score of an item from its keyword matches and its two bonuses
Scored(matched_keywords, tech, skill) ==
    [ok |-> tech.ok /\ skill.ok,
     score |-> KeywordPoints * Len(matched_keywords) + tech.bonus + skill.bonus,
     matched_keywords |-> matched_keywords]

\* one pass of the loop body of match_items_to_job, up to `if score > 0`
ScoreItem(job_description, keywords, item, item_type) ==
    Scored(MatchedKeywords(keywords, SearchableText(item, item_type)),
           IF item_type = "work_item"
           THEN TagBonus(item.technologies_used, Lower(job_description), TechPoints)
           ELSE NoBonus,
           IF item_type = "work_item"
           THEN TagBonus(item.skills_demonstrated, Lower(job_description), SkillPoints)
           ELSE NoBonus)

\* a matcher that keeps every candidate
KeepAll(scored) == scored

\* the entries kept by `if score > 0`
KeepScored(scored) == SelectSeq(scored, LAMBDA m : m.score > 0)

\* matches.sort(key=lambda x: x['score'], reverse=True)
SortMatches(matches) ==
    Permuted(matches, SortedIdx(List([i \in 1..Len(matches) |-> matches[i].score])))

Raised == [raised |-> TRUE, matches |-> <<>>]

Returned(matches) == [raised |-> FALSE, matches |-> matches]

\* the result of match_items_to_job from the scores of its items; an item
\* whose scoring raised leaves the function without a result
RankItems(items, scores, total_keywords, item_type) ==
    IF \E i \in 1..Len(items) : ~scores[i].ok THEN Raised
    ELSE Returned(SortMatches(KeepScored(List(
             [i \in 1..Len(items) |->
                 [item |-> items[i],
                  score |-> scores[i].score,
                  match_percentage |->
                      MatchPercentage(scores[i].score, Max(total_keywords, 1)),
                  matched_keywords |-> scores[i].matched_keywords,
                  item_type |-> item_type]]))))

\* match_items_to_job after its first line
MatchItems(job_description, keywords, items, item_type) ==
    RankItems(items,
              List([i \in 1..Len(items) |->
                       ScoreItem(job_description, keywords, items[i], item_type)]),
              Len(keywords), item_type)

match_items_to_job(job_description, items, item_type, seed) ==
    MatchItems(job_description, extract_keywords(job_description, seed), items, item_type)

\* component_text of keyword_match_components
ComponentText(component) ==
    Lower(component.title \o <<" ">> \o component.content \o <<" ">>
          \o Format(component.keywords))

\* score of a component in keyword_match_components
ComponentScore(keywords, component) ==
    KeywordPoints * Len(MatchedKeywords(keywords, ComponentText(component)))

\* the result of keyword_match_components from the scores of the components;
\* a score above 0 needs a keyword, so the division by len(keywords) never
\* sees 0
RankComponents(components, scores, total_keywords) ==
    Returned(SortMatches(KeepScored(List(
        [i \in 1..Len(components) |->
            [component |-> components[i],
             score |-> scores[i],
             match_percentage |->
                 IF scores[i] > 0 THEN MatchPercentage(scores[i], total_keywords)
                 ELSE 0]]))))

\* keyword_match_components after its first line
MatchComponents(keywords, components) ==
    RankComponents(components,
                   List([i \in 1..Len(components) |->
                            ComponentScore(keywords, components[i])]),
                   Len(keywords))

keyword_match_components(job_description, components, seed) ==
    MatchComponents(extract_keywords(job_description, seed), components)

\* score > 0.3, with similarities in thousandths
SimilarityThreshold == 300

\* the unit of a similarity: 1000 stands for 1.0
SimilarityUnit == 1000

\* The similarities, among the thousandths from 0 to 1, on which the
\* single-precision product score * 100 falls just below the integer it
\* equals in exact arithmetic (0.53 and 0.59 give 52.99.. and 58.99..); on
\* every other one int() of the product is the floor of the exact product.
SimilarityShortfall == {530, 590}

\* round(score * 100) in place of int(...)
RoundedSimilarity(similarity) == RoundHalfEven(similarity * 100, SimilarityUnit)

\* int(score * 100): int() drops the fraction, towards zero
SimilarityPercent(similarity) ==
    IF similarity >= 0
    THEN ((similarity * 100) \div SimilarityUnit)
             - (IF similarity \in SimilarityShortfall THEN 1 ELSE 0)
    ELSE -(((-similarity) * 100) \div SimilarityUnit)

\* a threshold that lets the similarity 0.3 itself pass
KeepFromThreshold(scored) == SelectSeq(scored, LAMBDA m : m.score >= SimilarityThreshold)

\* `if score > 0.3`
KeepSimilar(scored) == SelectSeq(scored, LAMBDA m : m.score > SimilarityThreshold)

\* semantic_match_components; similarities[i] is the cosine similarity the
\* embedding model gives component i
semantic_match_components(components, similarities) ==
    Returned(SortMatches(KeepSimilar(List(
        [i \in 1..Len(components) |->
            [component |-> components[i],
             score |-> similarities[i],
             match_percentage |-> SimilarityPercent(similarities[i])]]))))

\* cosine similarities, in thousandths, the embedding model is modelled with:
\* the threshold, values above it (one with half a percent or more beyond a
\* whole percentage, one on which the product falls short) and the largest
Similarities == {300, 306, 310, 590, 1000}

(***************************************************************************)
(* The state.                                                              *)
(***************************************************************************)
VARIABLES
    semantic_model,   \* TRUE: the SentenceTransformer loaded; FALSE: None
    hash_seed,        \* the str hash salt of the running process
    components,       \* rows of resume_components
    work_items,       \* rows of resume_ready_work_items
    job_description,  \* the job description callers pass
    call,             \* the last operation that ran
    mode,             \* matcher mode of its result: "keyword" or "semantic"
    keywords,         \* the keywords it extracted
    matches,          \* the component matches it computed, before truncation
    work_matches,     \* the work item matches it computed, before truncation
    raised,           \* TRUE when it ended in an exception
    response,         \* the HTTP response, for an endpoint
    job_similarities, \* the cosine similarities it computed, one per component
    fetched,          \* TRUE when it queried the stored rows (an endpoint does)
    resume_text,      \* the resume text the last sectionizer call was given
    sectionizer,      \* the sectionizer that ran last
    sectioned,        \* what it returned
    first_call,       \* the first sectionizer call: its function, text and result
    calls,            \* how many sectionizer calls were made
    request,          \* the request the last catalogue endpoint was given
    added,            \* the ids /add_component gave out
    clock,            \* the reading of the clock
    work_orders,      \* rows of work_orders
    projects,         \* rows of work_order_projects
    assignments,      \* rows of work_order_project_assignments
    uploads           \* the files of the uploads directory

vars == <<semantic_model, hash_seed, components, work_items, job_description,
          call, mode, keywords, matches, work_matches, raised, response,
          job_similarities, fetched,
          resume_text, sectionizer, sectioned, first_call, calls,
          request, added, clock,
          work_orders, projects, assignments, uploads>>

\* the state of the catalogue endpoints, beside the stored components
cataloguing == <<request, added, clock>>

\* no request yet
NoRequest == [endpoint |-> "none"]

\* the work order tables and the uploads directory, which the matchers, the
\* sectionizers and the catalogue leave alone
archiving == <<work_orders, projects, assignments, uploads>>

\* a process without work orders, projects or uploaded files
NothingArchived ==
    /\ work_orders = <<>>
    /\ projects = <<>>
    /\ assignments = {}
    /\ uploads = {}

\* the state of the sectionizers, which the matchers leave alone
sectioning == <<resume_text, sectionizer, sectioned, first_call, calls>>

\* no sectionizer call yet
NoCall == [sectionizer |-> "none", text |-> <<>>, sections |-> <<>>]

stored == <<components, work_items, job_description>>

NoResponse == [status |-> 0]

Init ==
    /\ semantic_model \in BOOLEAN
    /\ hash_seed \in 0..(HashSeeds - 1)
    /\ \E family \in Families :
           /\ job_description \in family.jobs
           /\ components \in family.components
           /\ work_items \in family.work_items
           /\ Len(components) + Len(work_items) <= family.most
    /\ call = "none"
    /\ mode = "none"
    /\ keywords = <<>>
    /\ matches = <<>>
    /\ work_matches = <<>>
    /\ raised = FALSE
    /\ response = NoResponse
    /\ job_similarities = <<>>
    /\ fetched = FALSE
    /\ resume_text = <<>>
    /\ sectionizer = "none"
    /\ sectioned = <<>>
    /\ first_call = NoCall
    /\ calls = 0
    /\ request = NoRequest
    /\ added = {}
    /\ clock = 0
    /\ NothingArchived

\* Process start (module load, and every reload of the debug server): the
\* interpreter draws a new hash salt and the embedding model loads or not.
\* What callers were given before stays with them.
Restart ==
    /\ hash_seed' \in 0..(HashSeeds - 1)
    /\ semantic_model' \in BOOLEAN
    /\ <<hash_seed', semantic_model'>> # <<hash_seed, semantic_model>>
    /\ UNCHANGED <<stored, call, mode, keywords, matches, work_matches, raised, response,
                   job_similarities, fetched, sectioning, cataloguing, archiving>>

\* the outcome of a direct call of one of the functions
DirectCall(name, matcher_mode, found, component_result, work_result) ==
    /\ call' = name
    /\ mode' = matcher_mode
    /\ keywords' = found
    /\ matches' = component_result.matches
    /\ work_matches' = work_result.matches
    /\ raised' = (component_result.raised \/ work_result.raised)
    /\ response' = NoResponse
    /\ job_similarities' = <<>>
    /\ fetched' = FALSE
    /\ UNCHANGED <<stored, semantic_model, hash_seed, sectioning, cataloguing, archiving>>

\* extract_keywords(job_description)
ExtractKeywords ==
    DirectCall("extract_keywords", "none",
               extract_keywords(job_description, hash_seed), Returned(<<>>), Returned(<<>>))

\* keyword_match_components(job_description, components)
KeywordMatchComponents ==
    DirectCall("keyword_match_components", "keyword", <<>>,
               keyword_match_components(job_description, components, hash_seed),
               Returned(<<>>))

\* match_items_to_job(job_description, components, 'component')
MatchComponentsToJob ==
    DirectCall("match_items_to_job_component", "keyword", <<>>,
               match_items_to_job(job_description, components, "component", hash_seed),
               Returned(<<>>))

\* match_items_to_job(job_description, work_items, 'work_item')
MatchWorkItemsToJob ==
    DirectCall("match_items_to_job_work_item", "keyword", <<>>,
               Returned(<<>>),
               match_items_to_job(job_description, work_items, "work_item", hash_seed))

(***************************************************************************)
(* The endpoints.                                                          *)
(***************************************************************************)
\* return jsonify({'error': 'Job description is required'}), 400
BadRequest == [status |-> 400, error |-> "Job description is required"]

\* except Exception as e: return jsonify({'error': str(e)}), 500
ServerError == [status |-> 500, error |-> "exception"]

\* `if not job_description: return ..., 400`
Reject(name) ==
    /\ call' = name
    /\ mode' = "none"
    /\ keywords' = <<>>
    /\ matches' = <<>>
    /\ work_matches' = <<>>
    /\ raised' = FALSE
    /\ response' = BadRequest
    /\ fetched' = FALSE
    /\ UNCHANGED <<stored, semantic_model, hash_seed, sectioning, cataloguing, archiving>>

\* the rest of match_job_description, from the matcher's result on
JobMatcherResponse(matcher_mode, result, found) ==
    /\ call' = "match_job_description"
    /\ mode' = matcher_mode
    /\ keywords' = (IF result.raised THEN <<>> ELSE found)
    /\ matches' = result.matches
    /\ work_matches' = <<>>
    /\ raised' = result.raised
    /\ response' =
           IF result.raised THEN ServerError
           ELSE [status |-> 200,
                 keywords |-> found,
                 matches |-> Take(result.matches, TopMatches),
                 total_matches |-> Len(result.matches)]
    /\ fetched' = TRUE
    /\ UNCHANGED <<stored, semantic_model, hash_seed, sectioning, cataloguing, archiving>>

\* an endpoint that does not look at the capability flag and encodes with
\* the embedding model on every request
AlwaysSemantic(similarities, empty_raises, found) ==
    /\ job_similarities' = IF job_description # <<>> THEN similarities ELSE <<>>
    /\ IF job_description = <<>> THEN Reject("match_job_description")
       ELSE JobMatcherResponse(
                "semantic",
                IF components = <<>> /\ empty_raises THEN Raised
                ELSE semantic_match_components(components, similarities),
                found)

\* POST /api/job-matcher.  `similarities` is what the embedding model and
\* cosine_similarity give for the stored components; cosine_similarity is
\* not defined on an empty batch, so with no stored component the semantic
\* branch either raises or yields no match (`empty_raises`).  `found` is
\* what extract_keywords(job_description) of line 614 returns.
match_job_description(similarities, empty_raises, found) ==
    /\ job_similarities' =
           IF job_description # <<>> /\ semantic_model THEN similarities ELSE <<>>
    /\ IF job_description = <<>> THEN Reject("match_job_description")
       ELSE JobMatcherResponse(
                IF semantic_model THEN "semantic" ELSE "keyword",
                IF semantic_model
                THEN (IF components = <<>> /\ empty_raises THEN Raised
                      ELSE semantic_match_components(components, similarities))
                ELSE keyword_match_components(job_description, components, hash_seed),
                found)

\* component_texts of semantic_match_components: f"{c['title']} {c['content']}"
EncodedText(component) == component.title \o <<" ">> \o component.content

\* the texts the embedding model encodes for the stored components
EncodedTexts == {EncodedText(components[i]) : i \in 1..Len(components)}

\* the inputs of a request: the embedding model gives every encoded text a
\* similarity (the same text the same one); that and empty_raises matter
\* only to a request the semantic branch serves
MatchJobDescription ==
    \E found \in {extract_keywords(job_description, hash_seed)} :
        \E similarity \in [EncodedTexts -> Similarities], empty_raises \in BOOLEAN :
            /\ (empty_raises => semantic_model /\ components = <<>> /\ job_description # <<>>)
            /\ (~semantic_model \/ job_description = <<>> =>
                    \A text \in EncodedTexts : similarity[text] = SimilarityThreshold)
            /\ match_job_description(
                   List([i \in 1..Len(components) |-> similarity[EncodedText(components[i])]]),
                   empty_raises, found)

\* an endpoint that stores the matched components, best first, in place of
\* the stored components
StoringResponse(found, component_result, work_result) ==
    /\ call' = "enhanced_job_matcher"
    /\ mode' = "keyword"
    /\ keywords' = found
    /\ matches' = component_result.matches
    /\ work_matches' = work_result.matches
    /\ raised' = (component_result.raised \/ work_result.raised)
    /\ response' = IF raised' THEN ServerError ELSE [status |-> 200, keywords |-> found]
    /\ fetched' = TRUE
    /\ components' = List([i \in 1..Len(component_result.matches) |->
                               component_result.matches[i].item])
    /\ UNCHANGED <<work_items, job_description, semantic_model, hash_seed, sectioning, cataloguing, archiving>>

\* the rest of enhanced_job_matcher, from the matchers' results on
EnhancedResponse(found, component_result, work_result) ==
    /\ call' = "enhanced_job_matcher"
    /\ mode' = "keyword"
    /\ keywords' = found
    /\ matches' = component_result.matches
    /\ work_matches' = work_result.matches
    /\ raised' = (component_result.raised \/ work_result.raised)
    /\ response' =
           IF component_result.raised \/ work_result.raised THEN ServerError
           ELSE [status |-> 200,
                 keywords |-> found,
                 component_matches |-> Take(component_result.matches, TopComponentMatches),
                 work_order_matches |->
                     Take(SelectSeq(work_result.matches,
                                    LAMBDA m : m.item.item_type = "work_order"),
                          TopWorkOrderMatches),
                 project_matches |->
                     Take(SelectSeq(work_result.matches,
                                    LAMBDA m : m.item.item_type = "project"),
                          TopProjectMatches),
                 total_matches |->
                     Len(component_result.matches) + Len(work_result.matches)]
    /\ fetched' = TRUE
    /\ UNCHANGED <<stored, semantic_model, hash_seed, sectioning, cataloguing, archiving>>

\* an endpoint that matches whatever job description it is given
UncheckedMatcher ==
    /\ job_similarities' = <<>>
    /\ EnhancedResponse(
           extract_keywords(job_description, hash_seed),
           match_items_to_job(job_description, components, "component", hash_seed),
           match_items_to_job(job_description, work_items, "work_item", hash_seed))

\* POST /api/job-matcher/enhanced
enhanced_job_matcher ==
    /\ job_similarities' = <<>>
    /\ IF job_description = <<>> THEN Reject("enhanced_job_matcher")
       ELSE EnhancedResponse(
                extract_keywords(job_description, hash_seed),
                match_items_to_job(job_description, components, "component", hash_seed),
                match_items_to_job(job_description, work_items, "work_item", hash_seed))

Next ==
    \/ Restart
    \/ ExtractKeywords
    \/ KeywordMatchComponents
    \/ MatchComponentsToJob
    \/ MatchWorkItemsToJob
    \/ MatchJobDescription
    \/ enhanced_job_matcher

Spec == Init /\ [][Next]_vars

(***************************************************************************)
(* The sectionizers: parse_resume_text of src/app.py, with                 *)
(* detect_section_header and categorize_section, and                       *)
(* ResumeExtractor.identify_sections of src/resume_extractor.py.  A text   *)
(* holds its line breaks as the characters "\n" and "\r".                  *)
(***************************************************************************)
\* what str.strip() removes and \s matches
Whitespace == {" ", "\t", "\n", "\r"}

\* the characters of seq that keep(i) selects
Kept(seq, keep(_)) ==
    LET at == SelectSeq(Positions(Len(seq)), keep)
    IN  List([r \in 1..Len(at) |-> seq[at[r]]])

\* re.sub(r'\r\n', '\n', text)
NormalizeLineEndings(text) ==
    Kept(text, LAMBDA i : ~(text[i] = "\r" /\ i < Len(text) /\ text[i + 1] = "\n"))

\* re.sub(r'\n{3,}', '\n\n', text): of a run of line breaks the first two stay
ReduceLineBreaks(text) ==
    Kept(text, LAMBDA i : ~(text[i] = "\n" /\ i > 2 /\ text[i - 1] = "\n" /\ text[i - 2] = "\n"))

\* text.split('\n')
SplitLines(text) ==
    LET breaks == SelectSeq(Positions(Len(text)), LAMBDA i : text[i] = "\n")
        n == Len(breaks) + 1
    IN  List([k \in 1..n |->
                 SubSeq(text, IF k = 1 THEN 1 ELSE breaks[k - 1] + 1,
                              IF k = n THEN Len(text) ELSE breaks[k] - 1)])

\* '\n'.join(lines)
RECURSIVE JoinLines(_)
JoinLines(lines) ==
    IF lines = <<>> THEN <<>>
    ELSE IF Len(lines) = 1 THEN lines[1]
    ELSE lines[1] \o <<"\n">> \o JoinLines(Tail(lines))

\* str.rstrip()
RStrip(line) ==
    LET solid == {i \in 1..Len(line) : line[i] \notin Whitespace}
    IN  IF solid = {} THEN <<>>
        ELSE SubSeq(line, 1, CHOOSE i \in solid : \A j \in solid : j <= i)

\* str.strip()
Strip(line) ==
    LET solid == {i \in 1..Len(line) : line[i] \notin Whitespace}
    IN  IF solid = {} THEN <<>>
        ELSE SubSeq(line, CHOOSE i \in solid : \A j \in solid : i <= j,
                          CHOOSE i \in solid : \A j \in solid : j <= i)

\* len(l.split())
WordCount(l) ==
    Cardinality({i \in 1..Len(l) :
        l[i] \notin Whitespace /\ (i = 1 \/ l[i - 1] \in Whitespace)})

\* str.upper() on one character
ToUpper ==
    LET index == [c \in LowerSet |-> CHOOSE i \in 1..Len(LowerLetters) : LowerLetters[i] = c]
    IN  [c \in LowerSet |-> UpperLetters[index[c]]]

\* str.upper()
Upper(text) == List([i \in 1..Len(text) |-> IF text[i] \in LowerSet THEN ToUpper[text[i]] ELSE text[i]])

\* str.isupper(): a cased character, and no lowercase one
IsUpper(l) ==
    /\ \E i \in 1..Len(l) : l[i] \in UpperSet
    /\ \A i \in 1..Len(l) : l[i] \notin LowerSet

\* str.endswith
EndsWith(l, c) == l # <<>> /\ l[Len(l)] = c

\* any(word in text for word in words)
AnyIn(words, text) == \E w \in words : Contains(text, w)

\* str.replace(' ', '')
WithoutSpaces(l) == SelectSeq(l, LAMBDA c : c # " ")

\* \b of the regular expression before position p
WordBorder(l, p) ==
    LET before == p > 1 /\ p - 1 <= Len(l) /\ IsWordChar(l[p - 1])
        after == p >= 1 /\ p <= Len(l) /\ IsWordChar(l[p])
    IN  before # after

\* (19|20)\d{2} at position p
YearAt(l, p) ==
    /\ p + 3 <= Len(l)
    /\ \/ l[p] = "1" /\ l[p + 1] = "9"
       \/ l[p] = "2" /\ l[p + 1] = "0"
    /\ l[p + 2] \in Digits
    /\ l[p + 3] \in Digits

\* where \s* from position p ends
PastSpace(l, p) ==
    CHOOSE q \in p..(Len(l) + 1) :
        /\ \A k \in p..(q - 1) : l[k] \in Whitespace
        /\ (q = Len(l) + 1 \/ l[q] \notin Whitespace)

\* [-\u2013\u2014] within the characters of the texts
Dashes == {"-"}

\* a year, a dash and what follows(position) accepts, between word borders
YearDash(l, follows(_)) ==
    \E p \in 1..Len(l) :
        /\ WordBorder(l, p)
        /\ YearAt(l, p)
        /\ LET dash == PastSpace(l, p + 4)
           IN  /\ dash <= Len(l)
               /\ l[dash] \in Dashes
               /\ follows(PastSpace(l, dash + 1))

\* re.search(r'\b(19|20)\d{2}\s*[-\u2013\u2014]\s*(19|20)\d{2}\b', l)
YearRange(l) == YearDash(l, LAMBDA y : YearAt(l, y) /\ WordBorder(l, y + 4))

\* re.search(r'\b(19|20)\d{2}\s*[-\u2013\u2014]\s*present\b', l, re.I)
SincePresent(l) ==
    YearDash(l, LAMBDA y : OccursAt(Lower(l), <<"p","r","e","s","e","n","t">>, y) /\ WordBorder(l, y + 7))

\* digits of a zip code
ZipLen == 5

\* re.search(r'^[A-Z][a-z]+,\s*[A-Z]{2}(\s+\d{5})?$', s)
CityState(s) ==
    /\ Len(s) >= 2
    /\ s[1] \in UpperSet
    /\ LET comma == CHOOSE q \in 2..(Len(s) + 1) :
                        /\ \A k \in 2..(q - 1) : s[k] \in LowerSet
                        /\ (q = Len(s) + 1 \/ s[q] \notin LowerSet)
       IN  /\ comma >= 3
           /\ comma <= Len(s)
           /\ s[comma] = ","
           /\ LET state == PastSpace(s, comma + 1)
              IN  /\ state + 1 <= Len(s)
                  /\ s[state] \in UpperSet
                  /\ s[state + 1] \in UpperSet
                  /\ \/ state + 1 = Len(s)
                     \/ LET zip == PastSpace(s, state + 2)
                        IN  /\ zip > state + 2
                            /\ zip + ZipLen - 1 = Len(s)
                            /\ \A k \in zip..Len(s) : s[k] \in Digits

\* the word lists of detect_section_header
CompanyWords ==
    {<<"C","O","R","P">>, <<"I","N","C">>, <<"L","L","C">>, <<"C","O","M","P","A","N","Y">>, <<"T","E","C","H","N","O","L","O","G","I","E","S">>, <<"S","Y","S","T","E","M","S">>, <<"G","R","O","U","P">>, <<"A","S","S","O","C","I","A","T","E","S">>}

JobTitles ==
    {<<"p","r","e","s","i","d","e","n","t">>, <<"m","a","n","a","g","e","r">>, <<"s","p","e","c","i","a","l","i","s","t">>, <<"t","e","c","h","n","i","c","i","a","n">>, <<"e","n","g","i","n","e","e","r">>, <<"a","n","a","l","y","s","t">>,
     <<"d","i","r","e","c","t","o","r">>, <<"c","o","o","r","d","i","n","a","t","o","r">>, <<"r","e","p","r","e","s","e","n","t","a","t","i","v","e">>}

SchoolWords == {<<"u","n","i","v","e","r","s","i","t","y">>, <<"c","o","l","l","e","g","e">>, <<"s","c","h","o","o","l">>, <<"i","n","s","t","i","t","u","t","e">>, <<"a","c","a","d","e","m","y">>}

SectionWords ==
    {<<"e","x","p","e","r","i","e","n","c","e">>, <<"e","m","p","l","o","y","m","e","n","t">>, <<"w","o","r","k","h","i","s","t","o","r","y">>, <<"c","a","r","e","e","r","h","i","s">>,
     <<"e","d","u","c","a","t","i","o","n">>, <<"a","c","a","d","e","m","i","c">>, <<"q","u","a","l","i","f","i","c","a","t","i","o","n","s">>, <<"d","e","g","r","e","e","s">>,
     <<"s","k","i","l","l","s">>, <<"c","o","m","p","e","t","e","n","c","i","e","s">>, <<"e","x","p","e","r","t","i","s","e">>, <<"a","b","i","l","i","t","i","e","s">>,
     <<"c","e","r","t","i","f","i","c","a","t","i","o","n","s">>, <<"c","e","r","t","i","f","i","c","a","t","e","s">>, <<"l","i","c","e","n","s","e","s">>, <<"c","r","e","d","e","n","t","i","a","l","s">>,
     <<"p","r","o","j","e","c","t","s">>, <<"p","o","r","t","f","o","l","i","o">>, <<"a","c","h","i","e","v","e","m","e","n","t","s">>, <<"a","c","c","o","m","p","l","i","s","h","m","e","n","t","s">>,
     <<"s","u","m","m","a","r","y">>, <<"p","r","o","f","i","l","e">>, <<"o","b","j","e","c","t","i","v","e">>, <<"o","v","e","r","v","i","e","w">>,
     <<"c","o","n","t","a","c","t">>, <<"c","o","n","t","a","c","t","i","n","f","o">>, <<"p","e","r","s","o","n","a","l","i","n","f","o">>}

\* the bullets within the characters of the texts
Bullets == {"-", "*"}

\* word and length limits of the header patterns
MaxCapsWords == 5

MaxColonWords == 4

MaxTitleWords == 4

MaxSchoolWords == 6

MinHeaderLen == 2

ShortHeader == 50

LongBody == 80

\* header_indicators: one of the patterns accepts the line
HeaderIndicator(l) ==
    \/ IsUpper(l) /\ WordCount(l) <= MaxCapsWords /\ \A i \in 1..Len(l) : l[i] \notin Digits
    \/ EndsWith(l, ":") /\ WordCount(l) <= MaxColonWords
    \/ AnyIn(CompanyWords, Upper(l))
    \/ AnyIn(JobTitles, Lower(l)) /\ WordCount(l) <= MaxTitleWords
    \/ AnyIn(SchoolWords, Lower(l)) /\ WordCount(l) <= MaxSchoolWords
    \/ AnyIn(SectionWords, WithoutSpaces(Lower(l)))
    \/ YearRange(l)
    \/ SincePresent(l)
    \/ CityState(Strip(l))

\* the context checks: a bullet on the next line, or a short line before a
\* long one
HeaderContext(line, line_index, all_lines) ==
    /\ line_index < Len(all_lines)
    /\ LET next_line == Strip(all_lines[line_index + 1])
       IN  \/ next_line # <<>> /\ next_line[1] \in Bullets
           \/ Len(line) < ShortHeader /\ Len(next_line) > LongBody

\* detect_section_header(line, line_index, all_lines), lines counted from 1
detect_section_header(line, line_index, all_lines) ==
    /\ Len(Strip(line)) >= MinHeaderLen
    /\ \/ HeaderIndicator(line)
       \/ HeaderContext(line, line_index, all_lines)

\* categorize_section(header, content): the first rule that accepts
categorize_section(header, content) ==
    LET header_lower == Lower(header)
        content_lower == Lower(content)
    IN  IF AnyIn({<<"s","u","m","m","a","r","y">>, <<"p","r","o","f","i","l","e">>, <<"o","b","j","e","c","t","i","v","e">>, <<"o","v","e","r","v","i","e","w">>, <<"a","b","o","u","t">>}, header_lower)
        THEN "professional_summary"
        ELSE IF AnyIn({<<"t","e","c","h","n","i","c","a","l">>, <<"c","o","m","p","u","t","e","r">>, <<"s","o","f","t","w","a","r","e">>, <<"p","r","o","g","r","a","m","m","i","n","g">>, <<"t","e","c","h","n","o","l","o","g","y">>,
                       <<"p","l","a","t","f","o","r","m">>, <<"t","o","o","l">>}, header_lower)
        THEN "technical_skills"
        ELSE IF /\ AnyIn({<<"s","k","i","l","l">>, <<"c","o","m","p","e","t","e","n","c">>, <<"a","b","i","l","i","t">>, <<"s","t","r","e","n","g","t","h">>, <<"e","x","p","e","r","t","i","s","e">>}, header_lower)
                /\ ~Contains(header_lower, <<"t","e","c","h","n","i","c","a","l">>)
        THEN "professional_skills"
        ELSE IF AnyIn({<<"e","x","p","e","r","i","e","n","c","e">>, <<"e","m","p","l","o","y","m","e","n","t">>, <<"w","o","r","k">>, <<"c","a","r","e","e","r">>, <<"h","i","s","t","o","r","y">>}, header_lower)
        THEN "work_experience"
        ELSE IF AnyIn({<<"c","o","r","p">>, <<"i","n","c">>, <<"l","l","c">>, <<"c","o","m","p","a","n","y">>, <<"t","e","c","h","n","o","l","o","g","i","e","s">>, <<"s","y","s","t","e","m","s">>}, header_lower)
        THEN "work_experience"
        ELSE IF AnyIn(JobTitles, header_lower)
        THEN "work_experience"
        ELSE IF AnyIn({<<"e","d","u","c","a","t","i","o","n">>, <<"a","c","a","d","e","m","i","c">>, <<"d","e","g","r","e","e">>, <<"u","n","i","v","e","r","s","i","t","y">>, <<"c","o","l","l","e","g","e">>, <<"s","c","h","o","o","l">>},
                      header_lower)
        THEN "education"
        ELSE IF AnyIn({<<"c","e","r","t","i","f","i","c","a","t","i","o","n">>, <<"c","e","r","t","i","f","i","c","a","t","e">>, <<"l","i","c","e","n","s","e">>, <<"c","r","e","d","e","n","t","i","a","l">>,
                       <<"a","c","c","r","e","d","i","t","a","t","i","o","n">>}, header_lower)
        THEN "certifications"
        ELSE IF AnyIn({<<"p","r","o","j","e","c","t">>, <<"p","o","r","t","f","o","l","i","o">>, <<"a","c","h","i","e","v","e","m","e","n","t">>, <<"a","c","c","o","m","p","l","i","s","h","m","e","n","t">>}, header_lower)
        THEN "projects"
        ELSE IF AnyIn({<<"c","o","n","t","a","c","t">>, <<"p","h","o","n","e">>, <<"e","m","a","i","l">>, <<"a","d","d","r","e","s","s">>, <<"l","i","n","k","e","d","i","n">>}, header_lower)
        THEN "contact_info"
        ELSE IF AnyIn({<<"m","a","n","a","g","e","d">>, <<"d","e","v","e","l","o","p","e","d">>, <<"i","m","p","l","e","m","e","n","t","e","d">>, <<"l","e","d">>, <<"c","o","o","r","d","i","n","a","t","e","d">>,
                       <<"s","u","p","e","r","v","i","s","e","d">>, <<"r","e","s","p","o","n","s","i","b","l","e"," ","f","o","r">>}, content_lower)
        THEN "work_experience"
        ELSE IF AnyIn({<<"b","a","c","h","e","l","o","r">>, <<"m","a","s","t","e","r">>, <<"p","h","d">>, <<"d","e","g","r","e","e">>, <<"g","r","a","d","u","a","t","e","d">>, <<"g","p","a">>}, content_lower)
        THEN "education"
        ELSE IF AnyIn({<<"c","e","r","t","i","f","i","e","d">>, <<"l","i","c","e","n","s","e","d">>, <<"c","o","m","p","t","i","a">>, <<"m","i","c","r","o","s","o","f","t"," ","c","e","r","t","i","f","i","e","d">>, <<"c","i","s","c","o">>},
                      content_lower)
        THEN "certifications"
        ELSE "other_sections"

\* the keys of a dict whose iteration followed the hash salt, as a set's does
SaltedCategories ==
    SetOrder(<<"professional_summary", "technical_skills", "professional_skills",
               "work_experience", "education", "certifications", "projects",
               "contact_info", "other_sections">>, hash_seed)

\* the keys of `components`, in the order the dict literal gives them and
\* the returned dict keeps
ComponentCategories ==
    <<"professional_summary", "technical_skills", "professional_skills",
      "work_experience", "education", "certifications", "projects",
      "contact_info", "other_sections">>

\* the loop state before the first line: no section open
NoSection == [sections |-> <<>>, open |-> FALSE, header |-> <<>>, content |-> <<>>]

\* the variant that saves the lines gathered before a section was open
SaveUnopened(at) ==
    IF at.content # <<>>
    THEN Append(at.sections, [header |-> at.header, content |-> Strip(JoinLines(at.content))])
    ELSE at.sections

\* sections.append(...) of the open section, if it has content
SaveSection(at) ==
    IF at.open /\ at.content # <<>>
    THEN Append(at.sections, [header |-> at.header, content |-> Strip(JoinLines(at.content))])
    ELSE at.sections

\* one turn of the loop over the lines, at line i
ParseLine(at, i, lines) ==
    LET line == lines[i]
        stripped_line == Strip(line)
    IN  IF stripped_line = <<>>
        THEN IF at.content # <<>> /\ Strip(at.content[Len(at.content)]) # <<>>
             THEN [at EXCEPT !.content = Append(@, line)]
             ELSE at
        ELSE IF detect_section_header(stripped_line, i, lines)
        THEN [sections |-> SaveSection(at), open |-> TRUE,
              header |-> stripped_line, content |-> <<>>]
        ELSE [at EXCEPT !.content = Append(@, line)]

\* the loop over lines 1..n
RECURSIVE ParseLines(_, _)
ParseLines(lines, n) ==
    IF n = 0 THEN NoSection ELSE ParseLine(ParseLines(lines, n - 1), n, lines)

\* the sections the loop detects, the last one included
DetectSections(lines) == SaveSection(ParseLines(lines, Len(lines)))

\* the components of one category: header, line break, content
ComponentsOf(category, sections) ==
    LET mine == SelectSeq(sections, LAMBDA s :
                    categorize_section(Lower(s.header), s.content) = category
                        /\ Strip(s.content) # <<>>)
    IN  List([k \in 1..Len(mine) |-> mine[k].header \o <<"\n">> \o mine[k].content])

\* parse_resume_text(text): the categories that have components, in the
\* order of the dict, each with its components in the order of the text
parse_resume_text(text) ==
    LET normal == ReduceLineBreaks(NormalizeLineEndings(text))
        split == SplitLines(normal)
        lines == List([i \in 1..Len(split) |-> RStrip(split[i])])
        sections == DetectSections(lines)
        all == List([c \in 1..Len(ComponentCategories) |->
                        [category |-> ComponentCategories[c],
                         content |-> ComponentsOf(ComponentCategories[c], sections)]])
    IN  SelectSeq(all, LAMBDA entry : entry.content # <<>>)

\* section_patterns of identify_sections, in the order of the dict: each
\* pattern is the alternatives an optional character gives, each alternative
\* the literal parts that stand around a `.*`
section_patterns == <<
    [section_type |-> "professional_summary",
     patterns |-> {<<<<"p","r","o","f","e","s","s","i","o","n","a","l"," ","s","u","m","m","a","r","y">>>>, <<<<"s","u","m","m","a","r","y">>>>, <<<<"p","r","o","f","i","l","e">>>>,
                   <<<<"o","b","j","e","c","t","i","v","e">>>>, <<<<"c","a","r","e","e","r"," ","o","b","j","e","c","t","i","v","e">>>>}],
    [section_type |-> "technical_skills",
     patterns |-> {<<<<"t","e","c","h","n","i","c","a","l"," ","s","k","i","l","l","s">>>>, <<<<"t","e","c","h","n","i","c","a","l"," ","c","o","m","p","e","t","e","n","c","i","e","s">>>>,
                   <<<<"t","e","c","h","n","o","l","o","g","y"," ","s","k","i","l","l","s">>>>, <<<<"s","y","s","t","e","m"," ","&"," ","i","n","f","r","a","s","t","r","u","c","t","u","r","e">>>>,
                   <<<<"s","y","s","t","e","m","s"," ","&"," ","i","n","f","r","a","s","t","r","u","c","t","u","r","e">>>>, <<<<"s","e","r","v","e","r"," ","m","a","n","a","g","e","m","e","n","t">>>>,
                   <<<<"w","i","n","d","o","w","s">>, <<"t","o","o","l">>>>}],
    [section_type |-> "professional_skills",
     patterns |-> {<<<<"p","r","o","f","e","s","s","i","o","n","a","l"," ","s","k","i","l","l","s">>>>, <<<<"c","o","r","e"," ","c","o","m","p","e","t","e","n","c","i","e","s">>>>, <<<<"k","e","y"," ","s","k","i","l","l","s">>>>,
                   <<<<"a","r","e","a","s"," ","o","f"," ","e","x","p","e","r","t","i","s","e">>>>, <<<<"s","e","r","v","i","c","e"," ","m","a","n","a","g","e","m","e","n","t">>>>}],
    [section_type |-> "work_experience",
     patterns |-> {<<<<"w","o","r","k"," ","e","x","p","e","r","i","e","n","c","e">>>>, <<<<"p","r","o","f","e","s","s","i","o","n","a","l"," ","e","x","p","e","r","i","e","n","c","e">>>>,
                   <<<<"e","m","p","l","o","y","m","e","n","t"," ","h","i","s","t","o","r","y">>>>, <<<<"e","x","p","e","r","i","e","n","c","e">>>>, <<<<"c","a","r","e","e","r"," ","h","i","s","t","o","r","y">>>>}],
    [section_type |-> "projects",
     patterns |-> {<<<<"k","e","y"," ","p","r","o","j","e","c","t","s">>>>, <<<<"n","o","t","a","b","l","e"," ","p","r","o","j","e","c","t","s">>>>, <<<<"m","a","j","o","r"," ","p","r","o","j","e","c","t","s">>>>,
                   <<<<"p","r","o","j","e","c","t"," ","e","x","p","e","r","i","e","n","c","e">>>>, <<<<"a","c","h","i","e","v","e","m","e","n","t","s">>>>}],
    [section_type |-> "certifications",
     patterns |-> {<<<<"c","e","r","t","i","f","i","c","a","t","i","o","n">>>>, <<<<"p","r","o","f","e","s","s","i","o","n","a","l"," ","c","e","r","t","i","f","i","c","a","t","i","o","n">>>>, <<<<"t","r","a","i","n","i","n","g">>>>,
                   <<<<"c","r","e","d","e","n","t","i","a","l","s">>>>}],
    [section_type |-> "education",
     patterns |-> {<<<<"e","d","u","c","a","t","i","o","n">>>>, <<<<"e","d","u","c","a","t","i","o","n","a","l"," ","b","a","c","k","g","r","o","u","n","d">>>>,
                   <<<<"a","c","a","d","e","m","i","c"," ","b","a","c","k","g","r","o","u","n","d">>>>}] >>

\* re.search of the parts in this order from position p on
RECURSIVE PartsFrom(_, _, _)
PartsFrom(parts, line, p) ==
    IF parts = <<>> THEN TRUE
    ELSE LET at == NextOccurrence(line, parts[1], p)
         IN  at # 0 /\ PartsFrom(Tail(parts), line, at + Len(parts[1]))

\* no header on this line
NotFound == "none"

\* found_section: the first section type one of whose patterns the line holds
FoundSection(line) ==
    LET lowered == Lower(line)
        hits == SelectSeq(Positions(Len(section_patterns)), LAMBDA t :
                    \E parts \in section_patterns[t].patterns : PartsFrom(parts, lowered, 1))
    IN  IF hits = <<>> THEN NotFound ELSE section_patterns[hits[1]].section_type

\* sections[current_section] = content: a new key goes last, an old key
\* keeps its place
SetSection(sections, section_type, content) ==
    IF \E k \in 1..Len(sections) : sections[k].section_type = section_type
    THEN List([k \in 1..Len(sections) |->
                  IF sections[k].section_type = section_type
                  THEN [section_type |-> section_type, content |-> content]
                  ELSE sections[k]])
    ELSE Append(sections, [section_type |-> section_type, content |-> content])

\* the loop state of identify_sections before the first line
NoneIdentified == [sections |-> <<>>, current_section |-> NotFound, section_content |-> <<>>]

\* sections[current_section] = '\n'.join(section_content), if there is any
SaveIdentified(at) ==
    IF at.current_section # NotFound /\ at.section_content # <<>>
    THEN SetSection(at.sections, at.current_section, JoinLines(at.section_content))
    ELSE at.sections

\* one turn of the loop of identify_sections
IdentifyLine(at, raw) ==
    LET line == Strip(raw)
        found_section == FoundSection(line)
    IN  IF line = <<>> THEN at
        ELSE IF found_section # NotFound
        THEN [sections |-> SaveIdentified(at), current_section |-> found_section,
              section_content |-> <<>>]
        ELSE IF at.current_section # NotFound
        THEN [at EXCEPT !.section_content = Append(@, line)]
        ELSE at

RECURSIVE IdentifyLines(_, _)
IdentifyLines(lines, n) ==
    IF n = 0 THEN NoneIdentified ELSE IdentifyLine(IdentifyLines(lines, n - 1), lines[n])

\* identify_sections(text): the section types in the order of their first
\* save, each with its content
identify_sections(text) ==
    LET lines == SplitLines(text)
    IN  SaveIdentified(IdentifyLines(lines, Len(lines)))

(***************************************************************************)
(* Sectionizer calls.  Both functions build their result from locals that  *)
(* every call creates anew; first_call keeps the first call made, so that  *)
(* a later call on the same text can be compared with it.                  *)
(***************************************************************************)
\* one character more than the longest line a short header is followed by
LongLine == List([i \in 1..(LongBody + 1) |-> "x"])

\* resume texts callers pass
ResumeTexts == {
    <<>>,
    <<"S","K","I","L","L","S","\n","v","p","n"," ","a","d","m","i","n">>,
    <<"E","d","u","c","a","t","i","o","n",":","\n","B","S"," ","d","e","g","r","e","e","\n","S","K","I","L","L","S","\n","v","p","n"," ","a","d","m","i","n">>,
    <<"W","o","r","k"," ","E","x","p","e","r","i","e","n","c","e"," ","S","u","m","m","a","r","y","\n","l","e","d"," ","v","p","n"," ","r","o","l","l","o","u","t">>,
    <<"l","e","d"," ","v","p","n"," ","r","o","l","l","o","u","t","\n","-"," ","c","i","s","c","o"," ","c","e","r","t","i","f","i","e","d">>,
    <<"A","u","s","t","i","n",","," ","T","X","\n","\n","\n","\n","m","a","n","a","g","e","d"," ","v","p","n">>,
    <<"2","0","1","9"," ","-"," ","2","0","2","1","\r","\n","h","e","l","p","d","e","s","k">>,
    <<"v","p","n"," ","a","d","m","i","n","\n","P","r","o","f","i","l","e","\n","P","C"," ","s","u","p","p","o","r","t","\n","\n","n","o","t","e","s">>,
    <<"A","c","m","e"," ","C","o","r","p","\n","I","T"," ","M","a","n","a","g","e","r","\n","K","e","y"," ","S","k","i","l","l","s","\n","v","p","n">>,
    <<"S","t","a","t","e"," ","C","o","l","l","e","g","e","\n","2","0","1","9"," ","-"," ","p","r","e","s","e","n","t">>,
    <<"N","o","t","e","s","\n">> \o LongLine,
    <<"T","r","a","i","n","i","n","g","\n","c","e","r","t","i","f","i","c","a","t","i","o","n","s","\n","c","o","m","p","t","i","a">>,
    <<"S","u","m","m","a","r","y","\n","f","i","r","s","t","\n","S","u","m","m","a","r","y","\n","s","e","c","o","n","d">>,
    <<"O","b","j","e","c","t","i","v","e","\n","v","p","n","\n","E","d","u","c","a","t","i","o","n","\n","B","S","\n","W","i","n","d","o","w","s"," ","a","d","m","i","n"," ","t","o","o","l","s","\n","P","C">> }

\* sectionizer calls one run makes
MaxCalls == 3

\* a call of the sectionizer `name` on `text` that returned `result`
SectionizerCall(name, text, result) ==
    /\ calls < MaxCalls
    /\ calls' = calls + 1
    /\ resume_text' = text
    /\ sectionizer' = name
    /\ sectioned' = result
    /\ first_call' = IF calls = 0
                     THEN [sectionizer |-> name, text |-> text, sections |-> result]
                     ELSE first_call
    /\ UNCHANGED <<stored, semantic_model, hash_seed, call, mode, keywords, matches,
                   work_matches, raised, response, job_similarities, fetched, cataloguing, archiving>>

\* parse_resume_text(text)
ParseResumeText ==
    \E text \in ResumeTexts :
        SectionizerCall("parse_resume_text", text, parse_resume_text(text))

\* ResumeExtractor.identify_sections(text)
IdentifySections ==
    \E text \in ResumeTexts :
        SectionizerCall("identify_sections", text, identify_sections(text))

\* the sectionizers are called in a process that holds no stored rows
SectionInit ==
    /\ Init
    /\ components = <<>>
    /\ work_items = <<>>
    /\ job_description = <<>>

SectionNext ==
    \/ Restart
    \/ ParseResumeText
    \/ IdentifySections

SectionSpec == SectionInit /\ [][SectionNext]_vars

(***************************************************************************)
(* The component catalogue: POST /add_component, GET /api/components and   *)
(* POST /api/components/<id>/usage of src/app.py, on the rows of           *)
(* resume_components.  created_at is the reading of a clock that every     *)
(* insert advances; the ISO texts the code stores compare as their times.  *)
(***************************************************************************)
\* the names in section_types
SectionTypeNames == {<<"p","r","o","f","e","s","s","i","o","n","a","l","_","s","u","m","m","a","r","y">>, <<"t","e","c","h","n","i","c","a","l","_","s","k","i","l","l","s">>}

\* request.args.get('limit', 100, type=int)
DefaultLimit == 100

\* usage_count of a row that was never used
NeverUsed == 0

\* uses of one component that are tracked
MaxUsage == 1

\* components one run adds
MaxAdds == 2

\* a row of resume_components joined with the name of its section type
StoredComponent(id, section_type_name, title, content, tags, usage_count, created_at) ==
    [id |-> id, section_type_name |-> section_type_name, title |-> title,
     content |-> content, keywords |-> tags, usage_count |-> usage_count,
     created_at |-> created_at]

\* n stored components, each of them used in a resume
UsedComponents(n) ==
    List([i \in 1..n |->
             StoredComponent(i, <<"t","e","c","h","n","i","c","a","l","_","s","k","i","l","l","s">>, <<"b","a","t","c","h">>, <<"v","p","n">>, Str(<<>>), MaxUsage, i)])

\* the catalogues a run starts from: none, and one below and at the default
\* limit of the listing
StoredCatalogues ==
    {<<>>, UsedComponents(DefaultLimit - 1), UsedComponents(DefaultLimit)}

\* JSON bodies POSTed to /add_component
AddRequests == {
    [section_type |-> <<"p","r","o","f","e","s","s","i","o","n","a","l","_","s","u","m","m","a","r","y">>, title |-> <<"V","P","N">>, content |-> <<"v","p","n"," ","a","d","m","i","n">>],
    [section_type |-> <<"t","e","c","h","n","i","c","a","l","_","s","k","i","l","l","s">>, title |-> <<"P","C">>, content |-> <<"v","p","n"," ","a","d","m","i","n">>,
     keywords |-> <<"p","c">>],
    [section_type |-> <<"p","r","o","f","e","s","s","i","o","n","a","l","_","s","u","m","m","a","r","y">>, title |-> <<" "," ">>, content |-> <<"v","p","n"," ","a","d","m","i","n">>],
    [section_type |-> <<"p","r","o","f","e","s","s","i","o","n","a","l","_","s","u","m","m","a","r","y">>, title |-> <<"V","P","N">>],
    [section_type |-> <<"s","u","m","m","a","r","y">>, title |-> <<"V","P","N">>, content |-> <<"v","p","n"," ","a","d","m","i","n">>] }

\* required_fields
required_fields == <<"section_type", "title", "content">>

\* `field not in data or not data[field].strip()` for one of the fields
MissingField(data) ==
    \E f \in 1..Len(required_fields) :
        \/ required_fields[f] \notin DOMAIN data
        \/ Strip(data[required_fields[f]]) = <<>>

\* cursor.lastrowid of the insert: one more than the largest id
NextId(rows) ==
    IF rows = <<>> THEN 1
    ELSE 1 + (CHOOSE m \in {rows[i].id : i \in 1..Len(rows)} :
                  \A i \in 1..Len(rows) : rows[i].id <= m)

\* a reply that changes no row
Refuse(endpoint, data, status, error) ==
    /\ call' = endpoint
    /\ request' = data
    /\ response' = [status |-> status, success |-> FALSE, error |-> error]
    /\ UNCHANGED <<components, added, clock>>

\* POST /add_component with the JSON body `data`
add_component(data) ==
    IF MissingField(data)
    THEN Refuse("add_component", data, 400, "Missing required field")
    ELSE IF data.section_type \notin SectionTypeNames
    THEN Refuse("add_component", data, 400, "Invalid section type")
    ELSE LET component_id == NextId(components)
         IN  /\ call' = "add_component"
             /\ request' = data
             /\ components' = Append(components,
                    StoredComponent(component_id, data.section_type, data.title, data.content,
                                    Str(IF "keywords" \in DOMAIN data THEN data.keywords ELSE <<>>),
                                    NeverUsed, clock))
             /\ clock' = clock + 1
             /\ added' = added \cup {component_id}
             /\ response' = [status |-> 200, success |-> TRUE, id |-> component_id]

\* column LIKE '%q%': the lowercased column holds the lowercased q; NULL
\* is like nothing
Like(column, q) == column # None /\ Contains(Lower(column.s), Lower(q))

\* the WHERE clause
Selected(row, section_type, search_query) ==
    /\ Truthy(section_type) => row.section_type_name = section_type.s
    /\ Truthy(search_query) =>
           \/ Like(Str(row.title), search_query.s)
           \/ Like(Str(row.content), search_query.s)
           \/ Like(row.keywords, search_query.s)

\* ORDER BY rc.usage_count DESC, rc.created_at DESC
OrderByUsage(rows) ==
    LET by_time == Permuted(rows, SortedIdx(List([i \in 1..Len(rows) |-> rows[i].created_at])))
    IN  Permuted(by_time,
                 SortedIdx(List([i \in 1..Len(by_time) |-> by_time[i].usage_count])))

\* LIMIT ?
Limited(rows, limit) == Take(rows, limit)

\* GET /api/components?section_type=..&q=..&limit=..
get_components(section_type, search_query, limit) ==
    /\ call' = "get_components"
    /\ request' = [endpoint |-> "get_components", section_type |-> section_type,
                   q |-> search_query, limit |-> limit]
    /\ response' =
           [status |-> 200,
            components |->
                Limited(OrderByUsage(SelectSeq(components, LAMBDA row :
                            Selected(row, section_type, search_query))),
                        IF limit = None THEN DefaultLimit ELSE limit.n)]
    /\ UNCHANGED <<components, added, clock>>

\* POST /api/components/<component_id>/usage
track_component_usage(component_id) ==
    /\ call' = "track_component_usage"
    /\ request' = [endpoint |-> "track_component_usage", id |-> component_id]
    /\ components' = List([i \in 1..Len(components) |->
                              IF components[i].id = component_id
                              THEN [components[i] EXCEPT !.usage_count = @ + 1]
                              ELSE components[i]])
    /\ response' = [status |-> 200, message |-> "Usage tracked"]
    /\ UNCHANGED <<added, clock>>

\* what the catalogue endpoints leave alone
beside_catalogue ==
    <<work_items, job_description, semantic_model, hash_seed, mode, keywords, matches,
      work_matches, raised, job_similarities, fetched, sectioning, archiving>>

AddComponent ==
    /\ Cardinality(added) < MaxAdds
    /\ \E data \in AddRequests : add_component(data)
    /\ UNCHANGED beside_catalogue

GetComponents ==
    /\ \E section_type \in {None, Str(<<"p","r","o","f","e","s","s","i","o","n","a","l","_","s","u","m","m","a","r","y">>)},
          search_query \in {None, Str(<<"V","P","N">>)},
          limit \in {None, [n |-> 1]} :
           get_components(section_type, search_query, limit)
    /\ UNCHANGED beside_catalogue

TrackComponentUsage ==
    /\ \E i \in 1..Len(components) :
           /\ components[i].usage_count < MaxUsage
           /\ track_component_usage(components[i].id)
    /\ UNCHANGED beside_catalogue

CatalogueInit ==
    /\ components \in StoredCatalogues
    /\ clock = Len(components) + 1
    /\ added = {}
    /\ request = NoRequest
    /\ semantic_model = FALSE
    /\ hash_seed = 0
    /\ work_items = <<>>
    /\ job_description = <<>>
    /\ call = "none"
    /\ mode = "none"
    /\ keywords = <<>>
    /\ matches = <<>>
    /\ work_matches = <<>>
    /\ raised = FALSE
    /\ response = NoResponse
    /\ job_similarities = <<>>
    /\ fetched = FALSE
    /\ resume_text = <<>>
    /\ sectionizer = "none"
    /\ sectioned = <<>>
    /\ first_call = NoCall
    /\ calls = 0
    /\ NothingArchived

CatalogueNext ==
    \/ AddComponent
    \/ GetComponents
    \/ TrackComponentUsage

CatalogueSpec == CatalogueInit /\ [][CatalogueNext]_vars

(***************************************************************************)
(* The domain-keyword extractor: the first definition of extract_keywords  *)
(* in src/app.py (line 678).  The definition of line 1731 takes the name   *)
(* over when the module is loaded, so no caller reaches this one through   *)
(* the name; it is modelled as the function the source text defines.       *)
(***************************************************************************)
\* tech_keywords
tech_keywords == <<
    <<"w","i","n","d","o","w","s">>, <<"l","i","n","u","x">>, <<"m","a","c","o","s">>, <<"a","c","t","i","v","e"," ","d","i","r","e","c","t","o","r","y">>, <<"s","e","r","v","i","c","e","n","o","w">>,
    <<"o","f","f","i","c","e","3","6","5">>, <<"m","i","c","r","o","s","o","f","t"," ","3","6","5">>, <<"a","z","u","r","e">>, <<"a","w","s">>, <<"v","m","w","a","r","e">>, <<"c","i","t","r","i","x">>,
    <<"d","e","s","k","t","o","p"," ","s","u","p","p","o","r","t">>, <<"h","e","l","p"," ","d","e","s","k">>, <<"t","e","c","h","n","i","c","a","l"," ","s","u","p","p","o","r","t">>, <<"t","r","o","u","b","l","e","s","h","o","o","t","i","n","g">>,
    <<"h","a","r","d","w","a","r","e">>, <<"s","o","f","t","w","a","r","e">>, <<"n","e","t","w","o","r","k">>, <<"n","e","t","w","o","r","k","i","n","g">>, <<"v","p","n">>, <<"s","e","c","u","r","i","t","y">>,
    <<"s","e","r","v","e","r">>, <<"c","l","o","u","d">>, <<"d","e","p","l","o","y","m","e","n","t">>, <<"m","i","g","r","a","t","i","o","n">>, <<"i","m","a","g","i","n","g">>, <<"s","c","c","m">>,
    <<"i","n","t","u","n","e">>, <<"j","a","m","f">>, <<"b","i","t","l","o","c","k","e","r">>, <<"p","o","w","e","r","s","h","e","l","l">>, <<"s","c","r","i","p","t","i","n","g">>, <<"a","u","t","o","m","a","t","i","o","n">>,
    <<"i","t","i","l">>, <<"i","n","c","i","d","e","n","t"," ","m","a","n","a","g","e","m","e","n","t">>, <<"a","s","s","e","t"," ","m","a","n","a","g","e","m","e","n","t">>, <<"d","o","c","u","m","e","n","t","a","t","i","o","n">>,
    <<"c","u","s","t","o","m","e","r"," ","s","e","r","v","i","c","e">>, <<"c","o","m","m","u","n","i","c","a","t","i","o","n">>, <<"p","r","o","b","l","e","m"," ","s","o","l","v","i","n","g">> >>

\* potential_tech[:10]
MaxPotentialTech == 10

\* len(tech) > 2
MinTechLen == 3

\* [A-Za-z0-9] of the regular expression
IsAlnum(c) == IsAlpha(c) \/ c \in Digits

\* re.findall(r'\b[A-Z][A-Za-z0-9]+\b', text): the runs of word characters
\* that start with a capital, hold letters and digits only and are at
\* least two long
FindCapitalized(text) ==
    LET starts == RunStarts(text)
        runs == List([r \in 1..Len(starts) |->
                         SubSeq(text, starts[r], RunEnd(text, starts[r]))])
    IN  SelectSeq(runs, LAMBDA run :
            /\ Len(run) >= 2
            /\ run[1] \in UpperSet
            /\ \A k \in 1..Len(run) : IsAlnum(run[k]))

\* `x in found_keywords`
InList(list, x) == \E k \in 1..Len(list) : list[k] = x

\* the loop over potential_tech[:10], after its first n turns
RECURSIVE AddPotentialTech(_, _, _)
AddPotentialTech(found_keywords, potential_tech, n) ==
    IF n = 0 THEN found_keywords
    ELSE LET found == AddPotentialTech(found_keywords, potential_tech, n - 1)
             tech == potential_tech[n]
         IN  IF Len(tech) >= MinTechLen /\ ~InList(found, Lower(tech))
             THEN Append(found, tech)
             ELSE found

\* the keywords of tech_keywords that the lowercased text holds
CuratedKeywords(text_lower) ==
    SelectSeq(tech_keywords, LAMBDA keyword : Contains(text_lower, keyword))

\* extract_keywords(text) as defined at line 678
extract_domain_keywords(text) ==
    LET potential_tech == Take(FindCapitalized(text), MaxPotentialTech)
    IN  AddPotentialTech(CuratedKeywords(Lower(text)), potential_tech, Len(potential_tech))

\* words of the texts the domain extractor is given
DomainWords == {<<"v","p","n">>, <<"V","P","N">>, <<"P","y","t","h","o","n">>, <<"P","C">>, <<"t","h","e">>}

\* most words of such a text
MaxDomainWords == 3

\* a text with one capitalized token more than the extractor looks at
ManyCapitals == <<"K","a","a"," ","K","a","b"," ","K","a","c"," ","K","a","d"," ","K","a","e"," ","K","a","f"," ","K","a","g"," ","K","a","h"," ","K","a","i"," ","K","a","j"," ","K","a","k">>

DomainTexts ==
    {JoinSpace(ws) : ws \in SeqsUpTo(DomainWords, MaxDomainWords)} \cup {ManyCapitals}

\* a call of the function of line 678 on the text
ExtractDomainKeywords ==
    /\ call = "none"
    /\ call' = "extract_domain_keywords"
    /\ keywords' = extract_domain_keywords(job_description)
    /\ UNCHANGED <<stored, semantic_model, hash_seed, mode, matches, work_matches, raised,
                   response, job_similarities, fetched, sectioning, cataloguing, archiving>>

\* a call of the function that bears the name at run time, on the text
ExtractNamedKeywords ==
    /\ call = "none"
    /\ call' = "extract_keywords"
    /\ keywords' = extract_keywords(job_description, hash_seed)
    /\ UNCHANGED <<stored, semantic_model, hash_seed, mode, matches, work_matches, raised,
                   response, job_similarities, fetched, sectioning, cataloguing, archiving>>

DomainInit ==
    /\ job_description \in DomainTexts
    /\ components = <<>>
    /\ work_items = <<>>
    /\ semantic_model = FALSE
    /\ hash_seed \in 0..(HashSeeds - 1)
    /\ call = "none"
    /\ mode = "none"
    /\ keywords = <<>>
    /\ matches = <<>>
    /\ work_matches = <<>>
    /\ raised = FALSE
    /\ response = NoResponse
    /\ job_similarities = <<>>
    /\ fetched = FALSE
    /\ resume_text = <<>>
    /\ sectionizer = "none"
    /\ sectioned = <<>>
    /\ first_call = NoCall
    /\ calls = 0
    /\ request = NoRequest
    /\ added = {}
    /\ clock = 0
    /\ NothingArchived

DomainNext ==
    \/ ExtractDomainKeywords
    \/ ExtractNamedKeywords

DomainSpec == DomainInit /\ [][DomainNext]_vars




(***************************************************************************)
(* Properties of the matchers.                                             *)
(***************************************************************************)
\* the item a match carries: keyword_match_components and
\* semantic_match_components call it 'component', match_items_to_job 'item'
ItemOf(m) == IF "item" \in DOMAIN m THEN m.item ELSE m.component

\* the component matches and the work item matches of the last call
AllMatches == matches \o work_matches

\* an endpoint answered in keyword mode: the state then holds the keywords
\* beside the matches computed from them
KeywordResponse ==
    /\ call \in {"match_job_description", "enhanced_job_matcher"}
    /\ mode = "keyword"
    /\ ~raised

\* the keywords of the last call whose lowercase form occurs in the
\* lowercased text, in keyword order
ContainedKeywords(text) ==
    SelectSeq(keywords, LAMBDA k : Contains(Lower(text), Lower(k)))

\* C1: every result of keyword-mode matching (keyword_match_components,
\* match_items_to_job, and the endpoints that return their results) has a
\* score above 0: a candidate that scored 0 is not in the output.
C1_ZeroFloor ==
    mode = "keyword" => \A i \in 1..Len(AllMatches) : AllMatches[i].score > 0

\* C1 happens: of two stored components keyword_match_components returned
\* one, the other having scored 0.
C1_Witness ==
    /\ call = "keyword_match_components"
    /\ Len(components) = 2
    /\ Len(matches) = 1
    /\ matches[1].score > 0

\* C2: in every matcher mode each result's match_percentage is an integer
\* from 0 to 100, also when the bonuses lift the score above the number of
\* keywords and when no keyword was extracted.
C2_PercentageBound ==
    mode \in {"keyword", "semantic"} =>
        \A i \in 1..Len(AllMatches) : AllMatches[i].match_percentage \in 0..100

\* C2 happens: no keyword was extracted, a tag bonus alone gave a work item
\* its score, and the percentage is capped at 100.
C2_Witness ==
    /\ call = "enhanced_job_matcher"
    /\ mode = "keyword"
    /\ keywords = <<>>
    /\ \E i \in 1..Len(work_matches) :
           /\ work_matches[i].score > 0
           /\ work_matches[i].match_percentage = 100

\* C3 as the specification states it: in keyword mode match_percentage is
\* min(100, round(score / max(totalKeywords, 1) * 100)).
C3_Rounded ==
    KeywordResponse =>
        \A i \in 1..Len(AllMatches) :
            AllMatches[i].match_percentage =
                Min(100, RoundHalfEven(50 * AllMatches[i].score, Max(Len(keywords), 1)))

\* C3 as the code has it: in keyword mode match_percentage is
\* min(100, int(score / max(totalKeywords, 1) * 100)).  int() drops the
\* fraction of the double-precision product, which is the floor of the exact
\* quotient but for four pairs of score and totalKeywords on which the
\* product falls just below an integer and the percentage is one less.
C3_Truncated ==
    KeywordResponse =>
        \A i \in 1..Len(AllMatches) :
            AllMatches[i].match_percentage =
                Min(100, ((50 * AllMatches[i].score) \div Max(Len(keywords), 1))
                         - (IF <<AllMatches[i].score, Len(keywords)>> \in FloatShortfall
                            THEN 1 ELSE 0))

\* C3 happens: a result with score 2 (4 halves) out of 3 keywords has
\* percentage 66, where rounding gives 67.
C3_Witness ==
    /\ KeywordResponse
    /\ Len(keywords) = 3
    /\ \E i \in 1..Len(AllMatches) :
           /\ AllMatches[i].score = 4
           /\ AllMatches[i].match_percentage = 66

\* C4: in keyword mode the base score of a candidate is the number of
\* keywords whose lowercase form is contained in the candidate's lowercased
\* searchable text, whole word or not.  For a component that count is the
\* score; for a work item the matched keywords are those keywords.  The
\* keywords windows and support against 'desktop support for windows
\* systems' give score 2 and percentage 100.
C4_SubstringScoring ==
    KeywordResponse =>
        /\ \A i \in 1..Len(matches) :
               /\ matches[i].score = KeywordPoints * Len(ContainedKeywords(
                                         SearchableText(ItemOf(matches[i]), "component")))
               /\ ( /\ ItemOf(matches[i]) = DesktopComponent
                    /\ job_description = DesktopJob )
                  => /\ matches[i].score = 2 * KeywordPoints
                     /\ matches[i].match_percentage = 100
        /\ \A i \in 1..Len(work_matches) :
               work_matches[i].matched_keywords =
                   ContainedKeywords(SearchableText(work_matches[i].item, "work_item"))

\* C4 happens: the example of the claim was matched.
C4_Witness ==
    /\ KeywordResponse
    /\ job_description = DesktopJob
    /\ Len(keywords) = 2
    /\ Len(matches) >= 1
    /\ ItemOf(matches[1]) = DesktopComponent
    /\ matches[1].score = 2 * KeywordPoints
    /\ matches[1].match_percentage = 100

\* the tags of a tag column, read as match_items_to_job reads them: none for
\* a NULL or empty column
TagList(field) == IF Truthy(field) THEN json_loads(field.s) ELSE JsonOk(<<>>)

\* more is less with one more entry at its end, an entry that less lacks
\* and that occurs in the job description
OneMoreTag(less, more) ==
    /\ TagList(less).ok
    /\ TagList(more).ok
    /\ Len(TagList(more).value) = Len(TagList(less).value) + 1
    /\ SubSeq(TagList(more).value, 1, Len(TagList(less).value)) = TagList(less).value
    /\ \A k \in 1..Len(TagList(less).value) :
           TagList(less).value[k] # TagList(more).value[Len(TagList(more).value)]
    /\ Contains(job_description, TagList(more).value[Len(TagList(more).value)])

\* C5: for work orders and projects a technology tag that occurs in the job
\* description adds 2 to the score (4 halves) and a skill tag that so occurs
\* adds 1.5 (3 halves): of two returned work items that are the same but for
\* one such tag at the end of one's technology list, and that matched the
\* same keywords, the one with the tag scores exactly 2 more; likewise 1.5
\* more for a skill tag.
C5_BonusWeighting ==
    mode = "keyword" /\ ~raised =>
        \A i, j \in 1..Len(work_matches) :
            work_matches[i].matched_keywords = work_matches[j].matched_keywords =>
                /\ ( /\ [work_matches[i].item EXCEPT !.technologies_used = None]
                          = [work_matches[j].item EXCEPT !.technologies_used = None]
                     /\ OneMoreTag(work_matches[i].item.technologies_used,
                                   work_matches[j].item.technologies_used) )
                   => work_matches[j].score = work_matches[i].score + 4
                /\ ( /\ [work_matches[i].item EXCEPT !.skills_demonstrated = None]
                          = [work_matches[j].item EXCEPT !.skills_demonstrated = None]
                     /\ OneMoreTag(work_matches[i].item.skills_demonstrated,
                                   work_matches[j].item.skills_demonstrated) )
                   => work_matches[j].score = work_matches[i].score + 3

\* C5 happens: two projects that differ in one technology tag named by the
\* job description were matched on the same keywords, 2 points apart.
C5_Witness ==
    /\ mode = "keyword"
    /\ ~raised
    /\ \E i, j \in 1..Len(work_matches) :
           /\ work_matches[i].matched_keywords = work_matches[j].matched_keywords
           /\ [work_matches[i].item EXCEPT !.technologies_used = None]
                  = [work_matches[j].item EXCEPT !.technologies_used = None]
           /\ OneMoreTag(work_matches[i].item.technologies_used,
                         work_matches[j].item.technologies_used)
           /\ work_matches[j].score = work_matches[i].score + 4

\* where x stands in seq for the k-th time; 0 if it does not
Occurrence(seq, x, k) ==
    LET at == SelectSeq(Positions(Len(seq)), LAMBDA p : seq[p] = x)
    IN  IF k <= Len(at) THEN at[k] ELSE 0

\* the place in items of the item of result[i]: of equal items the first
\* in result takes the first place in items, the second the second
PlaceOf(result, items, i) ==
    Occurrence(items, ItemOf(result[i]),
               Cardinality({j \in 1..i : ItemOf(result[j]) = ItemOf(result[i])}))

\* result is in non-increasing order of score and is drawn from items, each
\* at most once, with equal scores in the order items has them
Ordered(result, items) ==
    LET pos == List([i \in 1..Len(result) |-> PlaceOf(result, items, i)])
    IN  /\ \A i \in 1..(Len(result) - 1) : result[i].score >= result[i + 1].score
        /\ \A i \in 1..Len(result) : pos[i] # 0
        /\ \A i \in 1..(Len(result) - 1) :
               result[i].score = result[i + 1].score => pos[i] < pos[i + 1]

\* C6: the results of keyword-mode matching are in non-increasing order of
\* score, and candidates of equal score keep the order they have in the
\* candidate list.
C6_Ordering ==
    mode = "keyword" /\ ~raised =>
        /\ Ordered(matches, components)
        /\ Ordered(work_matches, work_items)

\* C6 happens: two different components tied and came back in input order.
C6_Witness ==
    /\ mode = "keyword"
    /\ Len(matches) = 2
    /\ matches[1].score = matches[2].score
    /\ ItemOf(matches[1]) # ItemOf(matches[2])
    /\ ItemOf(matches[1]) = components[1]
    /\ ItemOf(matches[2]) = components[2]

\* what the caller of a matcher sees of a result list: the items, their
\* scores and their percentages, in order
Outcome(result) ==
    [i \in 1..Len(result) |->
        <<ItemOf(result[i]), result[i].score, result[i].match_percentage>>]

\* C7: keyword-mode matching called again with the same job description and
\* the same candidates returns the same results (items, scores, percentages
\* and order).
C7_Determinism ==
    [][ ( /\ call' = call
          /\ mode = "keyword"
          /\ mode' = "keyword"
          /\ stored' = stored )
        => /\ raised' = raised
           /\ Outcome(matches)' = Outcome(matches)
           /\ Outcome(work_matches)' = Outcome(work_matches) ]_vars

\* C8: the frequency extractor returns at most 50 keywords.
C8_KeywordCap == Len(keywords) <= 50

\* C8 happens: a text of more than 50 distinct keywords was cut to 50.
C8_Witness ==
    /\ call = "extract_keywords"
    /\ Len(keywords) = 50
    /\ Len(Distinct(NotStopWords(FindWords(Lower(job_description))))) > 50

\* C9: on the empty job description the extractor returns no keyword and
\* keyword-mode matching returns no result, whatever the candidates, and
\* raises nothing.
C9_EmptyInput ==
    ( /\ job_description = <<>>
      /\ call \in {"extract_keywords", "keyword_match_components",
                   "match_items_to_job_component", "match_items_to_job_work_item"} )
    => /\ keywords = <<>>
       /\ matches = <<>>
       /\ work_matches = <<>>
       /\ ~raised

\* C10: the frequency extractor returns no word of its stop-word set.
C10_NoStopWords == \A i \in 1..Len(keywords) : keywords[i] \notin stop_words

\* C10 happens: keywords were extracted from a text that holds a stop word.
C10_Witness ==
    /\ call = "extract_keywords"
    /\ keywords # <<>>
    /\ \E i \in 1..Len(FindWords(Lower(job_description))) :
           FindWords(Lower(job_description))[i] \in stop_words

\* a tag column that is not list-encoded data: json.loads, or the loop over
\* what it returns, raises on it
Malformed(field) == ~TagList(field).ok

\* C11: a work item whose technologies_used or skills_demonstrated column
\* is malformed does not abort the match: match_items_to_job raises
\* nothing, the endpoint answers 200, and every work item that matched a
\* keyword is returned.
C11_MalformedIsolated ==
    ( /\ call \in {"match_items_to_job_work_item", "enhanced_job_matcher"}
      /\ job_description # <<>>
      /\ \E i \in 1..Len(work_items) :
             \/ Malformed(work_items[i].technologies_used)
             \/ Malformed(work_items[i].skills_demonstrated) )
    => /\ ~raised
       /\ call = "enhanced_job_matcher" => response.status = 200
       /\ \A i \in 1..Len(work_items) :
              ContainedKeywords(SearchableText(work_items[i], "work_item")) # <<>>
                  => \E k \in 1..Len(work_matches) : work_matches[k].item = work_items[i]

\* what the last request was answered with
served == <<call, mode, keywords, matches, work_matches, raised, response>>

\* C12: the embedding capability is decided at process start and at no
\* other step: a step that changes semantic_model answers no request, and a
\* request answered while the model is not loaded is never answered in
\* semantic mode.
C12_StaticFallback ==
    [][ /\ semantic_model' # semantic_model => served' = served
        /\ (served' # served /\ ~semantic_model) => mode' # "semantic" ]_vars

\* C12 happens: the model is not loaded and POST /api/job-matcher was
\* answered by keyword matching.
C12_Witness ==
    /\ ~semantic_model
    /\ call = "match_job_description"
    /\ mode = "keyword"
    /\ response.status = 200
    /\ matches # <<>>

\* POST /api/job-matcher answered in semantic mode
SemanticResponse ==
    /\ call = "match_job_description"
    /\ mode = "semantic"
    /\ ~raised

\* C13: semantic matching returns a component if and only if its cosine
\* similarity is above 0.3 (300 thousandths): one at exactly 0.3 is left
\* out, one at 0.31 is returned.
C13_SemanticThreshold ==
    SemanticResponse =>
        /\ Len(job_similarities) = Len(components)
        /\ Len(matches) =
               Cardinality({i \in 1..Len(components) : job_similarities[i] > 300})
        /\ \A i \in 1..Len(components) :
               job_similarities[i] > 300
                   <=> \E k \in 1..Len(matches) :
                           /\ matches[k].component = components[i]
                           /\ matches[k].score = job_similarities[i]

\* C13 happens: of two components, one at 0.3 and one at 0.31, only the
\* second was returned.
C13_Witness ==
    /\ SemanticResponse
    /\ Len(components) = 2
    /\ job_similarities[1] = 300
    /\ job_similarities[2] = 310
    /\ Len(matches) = 1
    /\ matches[1].score = 310

\* C14 as the specification states it: in semantic mode match_percentage
\* is round(similarity * 100).
C14_Rounded ==
    SemanticResponse =>
        \A k \in 1..Len(matches) :
            matches[k].match_percentage = RoundHalfEven(matches[k].score * 100, 1000)

\* C14 as the code has it: in semantic mode match_percentage is
\* int(similarity * 100), the similarity in percent with its fraction
\* dropped; on 0.53 and 0.59 the single-precision product falls short of
\* the whole percentage and the result is one less.
C14_Truncated ==
    SemanticResponse =>
        \A k \in 1..Len(matches) :
            matches[k].match_percentage =
                ((matches[k].score * 100) \div 1000)
                    - (IF matches[k].score \in {530, 590} THEN 1 ELSE 0)

\* C14 happens: a component at similarity 0.306 was returned with
\* percentage 30, where rounding gives 31.
C14_Witness ==
    /\ SemanticResponse
    /\ \E k \in 1..Len(matches) :
           /\ matches[k].score = 306
           /\ matches[k].match_percentage = 30

\* C15: a request to POST /api/job-matcher or /api/job-matcher/enhanced
\* whose job_description is empty (an absent one reads as '') is answered
\* with the 400 error, and neither the stored rows were queried nor a
\* matcher or the keyword extractor was run for it.
C15_BoundaryRejection ==
    ( /\ call \in {"match_job_description", "enhanced_job_matcher"}
      /\ job_description = <<>> )
    => /\ response = BadRequest
       /\ ~fetched
       /\ ~raised
       /\ mode = "none"
       /\ keywords = <<>>
       /\ matches = <<>>
       /\ work_matches = <<>>

\* C15 happens: with rows stored, the enhanced endpoint rejected the empty
\* job description.
C15_Witness ==
    /\ call = "enhanced_job_matcher"
    /\ job_description = <<>>
    /\ work_items # <<>>
    /\ response.status = 400

\* the matches of the last call whose item has the given item_type
OfType(type) == SelectSeq(work_matches, LAMBDA m : m.item.item_type = type)

\* an endpoint answered with match lists
MatchResponse ==
    /\ call \in {"match_job_description", "enhanced_job_matcher"}
    /\ response.status = 200

\* the match lists of the response, each with the sorted result it is cut
\* from: the component matches, and the work item matches of its item type
ResponseLists ==
    IF call = "match_job_description" THEN {<<response.matches, matches>>}
    ELSE { <<response.component_matches, matches>>,
           <<response.work_order_matches, OfType("work_order")>>,
           <<response.project_matches, OfType("project")>> }

\* how many matches the response returns
ReturnedCount ==
    IF call = "match_job_description" THEN Len(response.matches)
    ELSE Len(response.component_matches) + Len(response.work_order_matches)
             + Len(response.project_matches)

\* C16 as the specification states it: every match list of a response is
\* the first N entries of the sorted result, for an N from 10 to 20, and
\* total_matches is the number of matches before the cut.
C16_TopTenToTwenty ==
    MatchResponse =>
        /\ \A pair \in ResponseLists :
               \E n \in 10..20 : pair[1] = SubSeq(pair[2], 1, Min(n, Len(pair[2])))
        /\ response.total_matches = Len(matches) + Len(work_matches)
        /\ response.total_matches >= ReturnedCount

\* C16 as the code has it: POST /api/job-matcher returns the first 20
\* matches; the enhanced endpoint returns the first 10 component matches,
\* the first 10 matches on work orders and the first 5 matches on projects,
\* each in the order of the sorted result; total_matches counts the matches
\* before the cut and is never below the number returned.
C16_Truncation ==
    MatchResponse =>
        /\ call = "match_job_description" =>
               response.matches = SubSeq(matches, 1, Min(20, Len(matches)))
        /\ call = "enhanced_job_matcher" =>
               /\ response.component_matches = SubSeq(matches, 1, Min(10, Len(matches)))
               /\ response.work_order_matches =
                      SubSeq(OfType("work_order"), 1, Min(10, Len(OfType("work_order"))))
               /\ response.project_matches =
                      SubSeq(OfType("project"), 1, Min(5, Len(OfType("project"))))
        /\ response.total_matches = Len(matches) + Len(work_matches)
        /\ response.total_matches >= ReturnedCount

\* C16 happens: of 6 matched projects the response returned 5, the best
\* first, and of 11 matched components and work orders 10 each.
C16_Witness ==
    /\ call = "enhanced_job_matcher"
    /\ response.status = 200
    /\ Len(OfType("project")) = 6
    /\ Len(response.project_matches) = 5
    /\ response.project_matches[1].score > response.project_matches[2].score
    /\ Len(matches) = 11
    /\ Len(response.component_matches) = 10
    /\ Len(response.work_order_matches) = 10
    /\ response.total_matches = 28

\* the rows of a stored list
Rows(list) == {list[i] : i \in 1..Len(list)}

Listed(reply, id) == {k \in 1..Len(reply.components) : reply.components[k].id = id}

\* a JSON body /add_component has to accept
Acceptable(data) ==
    /\ \A f \in 1..Len(required_fields) :
           required_fields[f] \in DOMAIN data /\ Strip(data[required_fields[f]]) # <<>>
    /\ data.section_type \in SectionTypeNames

\* C19: an /add_component request with non-blank section_type, title and
\* content and an existing section type succeeds with a new id and adds
\* exactly one component, with that title and content; and a GET
\* /api/components without parameters that follows lists every component
\* added so, whatever other components are stored.
C19_StoredAndListed ==
    [][ /\ (call' = "add_component" /\ Acceptable(request'))
           => /\ response'.status = 200
              /\ response'.success
              /\ \A i \in 1..Len(components) : components[i].id # response'.id
              /\ Len(components') = Len(components) + 1
              /\ SubSeq(components', 1, Len(components)) = components
              /\ components'[Len(components')].id = response'.id
              /\ components'[Len(components')].title = request'.title
              /\ components'[Len(components')].content = request'.content
        /\ ( /\ call' = "get_components"
             /\ request'.section_type = None
             /\ request'.q = None
             /\ request'.limit = None )
           => \A id \in added : Listed(response', id) # {} ]_vars

\* how often the word stands among the tokens
TokenCount(words, word) == Cardinality({i \in 1..Len(words) : words[i] = word})

\* the keywords are distinct lowercase tokens, of two or more letters, of
\* the text whose tokens are `words`
DistinctTokens(words) ==
    /\ \A i, j \in 1..Len(keywords) : i # j => keywords[i] # keywords[j]
    /\ \A i \in 1..Len(keywords) :
           /\ Len(keywords[i]) >= MinWordLen
           /\ \A c \in 1..Len(keywords[i]) : keywords[i][c] \in LowerSet
           /\ TokenCount(words, keywords[i]) >= 1

\* the keywords are in non-increasing order of counts, which gives the
\* count of every token that is no stop word; and no such token that is
\* not returned has a larger count than a returned one
RankedBy(counts) ==
    /\ \A i \in 1..(Len(keywords) - 1) : counts[keywords[i]] >= counts[keywords[i + 1]]
    /\ \A w \in DOMAIN counts :
           (\A k \in 1..Len(keywords) : keywords[k] # w)
               => \A k \in 1..Len(keywords) : counts[w] <= counts[keywords[k]]

\* the tokens of the words that are no stop words
Candidates(words) == {words[i] : i \in {k \in 1..Len(words) : words[k] \notin stop_words}}

\* the tokens of the lowercased job description
JobTokens == FindWords(Lower(job_description))

\* the count of every candidate as a token of its own
TokenCounts(words) == [w \in Candidates(words) |-> TokenCount(words, w)]

\* the count of every candidate as str.count gives it
SubstringCounts(lowered, words) == [w \in Candidates(words) |-> StrCount(lowered, w)]

\* of two keywords, the one that stands less often as a token comes later
TokenRanked(words) == DistinctTokens(words) /\ RankedBy(TokenCounts(words))

\* the same by the counts of str.count
SubstringRanked(lowered, words) ==
    DistinctTokens(words) /\ RankedBy(SubstringCounts(lowered, words))

DistinctHits(tags, job_lower) ==
    Cardinality({tags[i] : i \in {k \in 1..Len(tags) : Contains(job_lower, Lower(tags[k]))}})

\* the work item matches whose two tag columns decode
Decoded ==
    {k \in 1..Len(work_matches) :
        /\ TagList(work_matches[k].item.technologies_used).ok
        /\ TagList(work_matches[k].item.skills_demonstrated).ok}

\* what a match scored beside its keywords, in half points
BonusPart(m) == m.score - KeywordPoints * Len(m.matched_keywords)

\* C21: a technology (skill) tag that is listed several times in an item's
\* tag list adds its 2 (1.5) points at most once: the bonus of a work item
\* is 2 for every different technology tag and 1.5 for every different
\* skill tag that stands in the job description; and a component gets no
\* bonus.
C21_DistinctTagBonus ==
    mode = "keyword" /\ ~raised =>
        /\ \A k \in Decoded :
               BonusPart(work_matches[k]) =
                   TechPoints * DistinctHits(TagList(work_matches[k].item.technologies_used).value,
                                             Lower(job_description))
                   + SkillPoints * DistinctHits(TagList(work_matches[k].item.skills_demonstrated).value,
                                                Lower(job_description))
        /\ \A k \in 1..Len(matches) :
               "item" \in DOMAIN matches[k] => BonusPart(matches[k]) = 0

\* the entries of a tag list that stand in the text as they are written
SameCaseHits(tags, text) ==
    Cardinality({i \in 1..Len(tags) : Contains(text, tags[i])})

\* C22 as stated: a tag earns its bonus only when it stands in the job
\* description with the same capitalization: the bonus of a work item is 2
\* for every technology entry, and 1.5 for every skill entry, that stands
\* in the job description as given.
C22_SameCaseBonus ==
    mode = "keyword" /\ ~raised =>
        \A k \in Decoded :
            BonusPart(work_matches[k]) =
                TechPoints * SameCaseHits(TagList(work_matches[k].item.technologies_used).value,
                                          job_description)
                + SkillPoints * SameCaseHits(TagList(work_matches[k].item.skills_demonstrated).value,
                                             job_description)

\* the entries of a tag list whose lowercased text stands in the text
AnyCaseHits(tags, job_lower) ==
    Cardinality({i \in 1..Len(tags) :
        \E at \in 1..(Len(job_lower) + 1) : OccursAt(job_lower, Lower(tags[i]), at)})

\* C22, amended: bonus matching ignores case, as keyword matching does: the
\* bonus of a work item is 2 for every technology entry, and 1.5 for every
\* skill entry, whose lowercased text stands in the lowercased job
\* description.
C22_AnyCaseBonus ==
    mode = "keyword" /\ ~raised =>
        \A k \in Decoded :
            BonusPart(work_matches[k]) =
                TechPoints * AnyCaseHits(TagList(work_matches[k].item.technologies_used).value,
                                         Lower(job_description))
                + SkillPoints * AnyCaseHits(TagList(work_matches[k].item.skills_demonstrated).value,
                                            Lower(job_description))

\* C22 happens: a project tagged 'servicenow' got the technology bonus from
\* a job description that writes 'ServiceNow'
C22_Witness ==
    /\ mode = "keyword"
    /\ ~raised
    /\ \E k \in Decoded :
           /\ TagList(work_matches[k].item.technologies_used).value = <<<<"s","e","r","v","i","c","e","n","o","w">>>>
           /\ ~Contains(job_description, <<"s","e","r","v","i","c","e","n","o","w">>)
           /\ BonusPart(work_matches[k]) = TechPoints

\* the job-matcher endpoints
MatcherEndpoints == {"match_job_description", "enhanced_job_matcher"}

\* C23: the keywords list a job-matcher endpoint returns is the output of
\* the domain-keyword extractor (curated terms and capitalized tokens) for
\* the job description, the frequency extractor serving the scoring only.
C23_DomainKeywordsReturned ==
    (call \in MatcherEndpoints /\ response.status = 200)
        => response.keywords = extract_domain_keywords(job_description)

\* C24: the domain-keyword extractor returns the curated terms the text
\* holds and then capitalized tokens from among the first 10, and no two
\* entries of its result are equal when compared case-insensitively.
C24_NoCaseDuplicates ==
    call = "extract_domain_keywords" =>
        /\ \E n \in 0..Len(keywords) :
               /\ SubSeq(keywords, 1, n) = CuratedKeywords(Lower(job_description))
               /\ \A k \in (n + 1)..Len(keywords) :
                      InList(Take(FindCapitalized(job_description), MaxPotentialTech),
                             keywords[k])
        /\ \A i, j \in 1..Len(keywords) :
               i # j => Lower(keywords[i]) # Lower(keywords[j])

(***************************************************************************)
(* Projects of work orders (src/app.py).  A row of work_orders carries its *)
(* id, its fn_work_order_id, the company, the service date (NULL, or the   *)
(* year as strftime('%Y') renders it and the month) and the pay amount     *)
(* (NULL or a number).  A row of work_order_projects carries its id, its   *)
(* name, the client and the two stored metrics.  A row of                  *)
(* work_order_project_assignments is a pair of a work order id and a       *)
(* project id, one row per pair.  The connection never turns foreign keys  *)
(* on, so a deleted work order leaves its assignment rows behind.          *)
(***************************************************************************)
\* a numeric column value
Number(n) == [none |-> FALSE, n |-> n]

\* a service date: strftime('%Y', service_date) and the month of it
ServiceDate(year, month) == [none |-> FALSE, year |-> year, month |-> month]

WorkOrderRow(id, fn_work_order_id, company_name, service_date, pay_amount) ==
    [id |-> id, fn_work_order_id |-> fn_work_order_id, company_name |-> company_name,
     service_date |-> service_date, pay_amount |-> pay_amount]

\* the value of a metric column that an INSERT leaves out
ColumnDefault == 0

ProjectRow(id, project_name, client_name, total_work_orders, total_earnings) ==
    [id |-> id, project_name |-> project_name, client_name |-> client_name,
     total_work_orders |-> total_work_orders, total_earnings |-> total_earnings]

Assignment(work_order_id, project_id) ==
    [work_order_id |-> work_order_id, project_id |-> project_id]

\* SELECT work_order_id FROM work_order_project_assignments WHERE project_id = ?
AssignedTo(assigned, project_id) ==
    {a.work_order_id : a \in {b \in assigned : b.project_id = project_id}}

\* COALESCE((SELECT SUM(wo.pay_amount) FROM the assignments JOIN work_orders), 0)
RECURSIVE SumPay(_, _)
SumPay(orders, ids) ==
    IF orders = <<>> THEN 0
    ELSE (IF Head(orders).id \in ids /\ ~Head(orders).pay_amount.none
          THEN Head(orders).pay_amount.n ELSE 0) + SumPay(Tail(orders), ids)

\* UPDATE work_order_projects SET total_work_orders = ..., total_earnings = ...
\* WHERE id = ?
UpdateMetrics(rows, assigned, orders, project_id) ==
    [k \in 1..Len(rows) |->
        IF rows[k].id = project_id
        THEN [rows[k] EXCEPT
                 !.total_work_orders = Cardinality(AssignedTo(assigned, project_id)),
                 !.total_earnings = SumPay(orders, AssignedTo(assigned, project_id))]
        ELSE rows[k]]

\* SELECT id FROM work_order_projects WHERE id = ?
ProjectExists(project_id) == \E k \in 1..Len(projects) : projects[k].id = project_id

\* POST /api/projects
create_project(data) ==
    /\ request' = [endpoint |-> "create_project"]
    /\ IF "project_name" \in DOMAIN data
       THEN /\ projects' = Append(projects,
                               ProjectRow(Len(projects) + 1, data.project_name,
                                          IF "client_name" \in DOMAIN data
                                          THEN data.client_name ELSE <<>>,
                                          ColumnDefault, ColumnDefault))
            /\ response' = [status |-> 201, id |-> Len(projects) + 1]
       ELSE /\ projects' = projects
            /\ response' = [status |-> 500]
    /\ UNCHANGED <<work_orders, assignments>>

\* POST /api/projects/<project_id>/work-orders
assign_work_orders_to_project(project_id, data) ==
    /\ request' = [endpoint |-> "assign_work_orders_to_project"]
    /\ IF ~ProjectExists(project_id)
       THEN /\ response' = [status |-> 404]
            /\ UNCHANGED <<projects, assignments>>
       ELSE LET ids == {data.work_order_ids[k] : k \in 1..Len(data.work_order_ids)}
                assigned == assignments \cup {Assignment(id, project_id) : id \in ids}
            IN  /\ assignments' = assigned
                /\ projects' = UpdateMetrics(projects, assigned, work_orders, project_id)
                /\ response' = [status |-> 200,
                                assigned_count |-> Len(data.work_order_ids)]
    /\ UNCHANGED work_orders

\* DELETE /api/projects/<project_id>/work-orders/<work_order_id>
remove_work_order_from_project(project_id, work_order_id) ==
    LET assigned == assignments \ {Assignment(work_order_id, project_id)}
    IN  /\ request' = [endpoint |-> "remove_work_order_from_project"]
        /\ assignments' = assigned
        /\ projects' = UpdateMetrics(projects, assigned, work_orders, project_id)
        /\ response' = [status |-> 200]
        /\ UNCHANGED work_orders

\* DELETE FROM work_orders WHERE id = ?
WithoutOrder(orders, id) == SelectSeq(orders, LAMBDA wo : wo.id # id)

\* DELETE /api/work-orders/<work_order_id>
delete_work_order(work_order_id) ==
    /\ request' = [endpoint |-> "delete_work_order"]
    /\ IF \E k \in 1..Len(work_orders) : work_orders[k].id = work_order_id
       THEN /\ work_orders' = WithoutOrder(work_orders, work_order_id)
            /\ response' = [status |-> 200]
       ELSE /\ work_orders' = work_orders
            /\ response' = [status |-> 404]
    /\ UNCHANGED <<projects, assignments>>

\* the characters of the names, in the order of their codes
Collation ==
    <<" ", "$", "-", ".", "0","1","2","3","4","5","6","7","8","9">>
        \o UpperLetters \o <<"_">> \o LowerLetters

CodeRank(c) == CHOOSE i \in 1..Len(Collation) : Collation[i] = c

\* a < b for two TEXT values
RECURSIVE TextBefore(_, _)
TextBefore(a, b) ==
    IF b = <<>> THEN FALSE
    ELSE IF a = <<>> THEN TRUE
    ELSE IF Head(a) = Head(b) THEN TextBefore(Tail(a), Tail(b))
    ELSE CodeRank(Head(a)) < CodeRank(Head(b))

\* (CAST(strftime('%m', service_date) AS INTEGER) - 1) / 3
Quarter(service_date) == (service_date.month - 1) \div 3

\* HAVING work_order_count >= 3
MinTimeframeOrders == 3

\* HAVING COUNT(*) >= 2
MinCompanyOrders == 2

\* the variant that takes every work order for unassigned
Everything(orders, assigned) == orders

\* the rows the LEFT JOIN keeps: WHERE wopa.work_order_id IS NULL
Unassigned(orders, assigned) ==
    SelectSeq(orders, LAMBDA wo : \A a \in assigned : a.work_order_id # wo.id)

\* GROUP BY company_name, year, quarter
TimeframeOf(wo) == <<wo.company_name, wo.service_date.year, Quarter(wo.service_date)>>

\* the rows of one group
InTimeframe(orders, key) ==
    SelectSeq(orders, LAMBDA wo : ~wo.service_date.none /\ TimeframeOf(wo) = key)

\* WHERE service_date IS NOT NULL
Dated(orders) == SelectSeq(orders, LAMBDA wo : ~wo.service_date.none)

\* the groups the SELECT returns
Timeframes(orders, assigned) ==
    LET free == Dated(Unassigned(orders, assigned))
    IN  {key \in {TimeframeOf(free[k]) : k \in 1..Len(free)} :
            Len(InTimeframe(free, key)) >= MinTimeframeOrders}

\* ORDER BY company_name, year, quarter
TimeframeBefore(a, b) ==
    \/ TextBefore(a[1], b[1])
    \/ a[1] = b[1] /\ TextBefore(a[2], b[2])
    \/ a[1] = b[1] /\ a[2] = b[2] /\ a[3] < b[3]

RECURSIVE InOrder(_)
InOrder(keys) ==
    IF keys = {} THEN <<>>
    ELSE LET first == CHOOSE a \in keys : \A b \in keys \ {a} : TimeframeBefore(a, b)
         IN  <<first>> \o InOrder(keys \ {first})

\* SUM(pay_amount) of a group is NULL when no row of it has a pay amount, and
\* f"{None:.2f}" raises
NoEarnings(rows) == \A k \in 1..Len(rows) : rows[k].pay_amount.none

QuarterDigits == <<"1","2","3","4">>

\* f"{company_name} - Q{quarter + 1} {year} Support"
TimeframeName(key) ==
    key[1] \o <<" ","-"," ","Q">> \o <<QuarterDigits[key[3] + 1]>> \o <<" ">> \o key[2] \o <<" ","S","u","p","p","o","r","t">>

\* the loop over the groups: one project each, and its assignments
RECURSIVE CreateTimeframes(_, _, _, _)
CreateTimeframes(keys, orders, rows, assigned) ==
    IF keys = <<>> THEN [projects |-> rows, assignments |-> assigned, created |-> <<>>]
    ELSE LET key == Head(keys)
             project_id == Len(rows) + 1
             members == InTimeframe(Unassigned(orders, assigned), key)
             rest == CreateTimeframes(
                         Tail(keys), orders,
                         Append(rows, ProjectRow(project_id, TimeframeName(key), key[1],
                                                 ColumnDefault, ColumnDefault)),
                         assigned \cup {Assignment(members[k].id, project_id) :
                                            k \in 1..Len(members)})
         IN  [rest EXCEPT !.created =
                 <<[id |-> project_id, name |-> TimeframeName(key),
                    work_order_count |-> Len(InTimeframe(Unassigned(orders, assigned), key))]>>
                 \o rest.created]

\* bound: the projects a run may hold
MaxProjects == 2

\* POST /api/projects/auto-create
auto_create_projects(data) ==
    LET criteria == IF "criteria" \in DOMAIN data THEN data.criteria
                    ELSE "company_and_timeframe"
        keys == InOrder(Timeframes(work_orders, assignments))
        raises == \E k \in 1..Len(keys) :
                      NoEarnings(InTimeframe(Unassigned(work_orders, assignments), keys[k]))
        result == CreateTimeframes(keys, work_orders, projects, assignments)
    IN  /\ request' = [endpoint |-> "auto_create_projects", data |-> data]
        /\ IF criteria # "company_and_timeframe"
           THEN /\ response' = [status |-> 200, projects |-> <<>>]
                /\ UNCHANGED <<projects, assignments>>
           ELSE IF raises
           THEN /\ response' = [status |-> 500]
                /\ UNCHANGED <<projects, assignments>>
           ELSE /\ Len(result.projects) <= MaxProjects
                /\ projects' = result.projects
                /\ assignments' = result.assignments
                /\ response' = [status |-> 200, projects |-> result.created]
        /\ UNCHANGED work_orders

\* GROUP BY company_name
OfCompany(orders, company_name) ==
    SelectSeq(orders, LAMBDA wo : wo.company_name = company_name)

\* the groups the SELECT returns
Companies(orders) ==
    {name \in {orders[k].company_name : k \in 1..Len(orders)} :
        Len(OfCompany(orders, name)) >= MinCompanyOrders}

\* ORDER BY COUNT(*) DESC: the orders the rows may come in, equal counts in
\* any order
CompanyOrders(orders) ==
    LET names == Companies(orders)
    IN  {order \in [1..Cardinality(names) -> names] :
            /\ \A name \in names : \E k \in DOMAIN order : order[k] = name
            /\ \A i, j \in DOMAIN order :
                   i < j => Len(OfCompany(orders, order[i])) >= Len(OfCompany(orders, order[j]))}

\* project_name LIKE '%company_name%'
NameLike(project_name, company_name) ==
    Contains(Lower(project_name), Lower(company_name))

\* f"{company_name} - Multiple Work Orders"
CompanyName(company_name) == company_name \o <<" ","-"," ","M","u","l","t","i","p","l","e"," ","W","o","r","k"," ","O","r","d","e","r","s">>

\* the loop over the companies
RECURSIVE CreateCompanies(_, _, _, _)
CreateCompanies(names, orders, rows, assigned) ==
    IF names = <<>> THEN [projects |-> rows, assignments |-> assigned, created |-> 0]
    ELSE LET company_name == Head(names)
             members == OfCompany(orders, company_name)
             existing_project ==
                 \E k \in 1..Len(rows) : NameLike(rows[k].project_name, company_name)
             project_id == Len(rows) + 1
         IN  IF existing_project
             THEN CreateCompanies(Tail(names), orders, rows, assigned)
             ELSE LET rest == CreateCompanies(
                                  Tail(names), orders,
                                  Append(rows, ProjectRow(project_id,
                                                          CompanyName(company_name),
                                                          company_name, Len(members),
                                                          ColumnDefault)),
                                  assigned \cup {Assignment(members[k].id, project_id) :
                                                     k \in 1..Len(members)})
                  IN  [rest EXCEPT !.created = rest.created + 1]

\* POST /api/projects/auto-create-from-workorders
auto_create_projects_from_work_orders ==
    \E order \in CompanyOrders(work_orders) :
        LET result == CreateCompanies(List(order), work_orders, projects, assignments)
        IN  /\ Len(result.projects) <= MaxProjects
            /\ request' = [endpoint |-> "auto_create_projects_from_work_orders"]
            /\ projects' = result.projects
            /\ assignments' = result.assignments
            /\ response' = [status |-> 200, created_count |-> result.created]
            /\ UNCHANGED work_orders

\* what the project and work order endpoints leave alone
beside_projects ==
    <<semantic_model, hash_seed, components, work_items, job_description, call, mode,
      keywords, matches, work_matches, raised, job_similarities, fetched, sectioning,
      added, clock, uploads>>

Acme == <<"A","c","m","e">>

AcmeCorp == <<"A","c","m","e"," ","C","o","r","p">>

Zed == <<"Z","e","d">>

\* the work orders a run starts with
OrderFamilies ==
    { <<WorkOrderRow(1, <<"1">>, Acme, ServiceDate(<<"2","0","2","4">>, 1), Number(2)),
        WorkOrderRow(2, <<"2">>, Acme, ServiceDate(<<"2","0","2","4">>, 2), None),
        WorkOrderRow(3, <<"3">>, Acme, ServiceDate(<<"2","0","2","4">>, 3), Number(1)),
        WorkOrderRow(4, <<"4">>, Zed, None, Number(1))>>,
      <<WorkOrderRow(1, <<"1">>, AcmeCorp, ServiceDate(<<"2","0","2","4">>, 1), Number(1)),
        WorkOrderRow(2, <<"2">>, AcmeCorp, ServiceDate(<<"2","0","2","4">>, 1), Number(1)),
        WorkOrderRow(3, <<"3">>, AcmeCorp, ServiceDate(<<"2","0","2","4">>, 2), Number(2)),
        WorkOrderRow(4, <<"4">>, Acme, ServiceDate(<<"2","0","2","4">>, 4), Number(1)),
        WorkOrderRow(5, <<"5">>, Acme, None, None)>>,
      <<WorkOrderRow(1, <<"1">>, Acme, ServiceDate(<<"2","0","2","5">>, 4), None),
        WorkOrderRow(2, <<"2">>, Acme, ServiceDate(<<"2","0","2","5">>, 5), None),
        WorkOrderRow(3, <<"3">>, Acme, ServiceDate(<<"2","0","2","5">>, 6), None),
        WorkOrderRow(4, <<"4">>, Zed, ServiceDate(<<"2","0","2","5">>, 6), Number(1))>>,
      <<WorkOrderRow(1, <<"1">>, Zed, ServiceDate(<<"2","0","2","5">>, 10), Number(1)),
        WorkOrderRow(2, <<"2">>, Zed, ServiceDate(<<"2","0","2","5">>, 11), Number(1)),
        WorkOrderRow(3, <<"3">>, Zed, ServiceDate(<<"2","0","2","5">>, 12), Number(1)),
        WorkOrderRow(4, <<"4">>, Acme, ServiceDate(<<"2","0","2","4">>, 1), Number(2)),
        WorkOrderRow(5, <<"5">>, Acme, ServiceDate(<<"2","0","2","4">>, 2), Number(2)),
        WorkOrderRow(6, <<"6">>, Acme, ServiceDate(<<"2","0","2","4">>, 3), Number(2))>>,
      <<WorkOrderRow(1, <<"1">>, Acme, ServiceDate(<<"2","0","2","4">>, 1), Number(1)),
        WorkOrderRow(2, <<"2">>, Acme, ServiceDate(<<"2","0","2","4">>, 7), Number(1)),
        WorkOrderRow(3, <<"3">>, Zed, None, Number(2)),
        WorkOrderRow(4, <<"4">>, Zed, None, None)>> }

\* the bodies POST /api/projects is given
CreateRequests ==
    { [project_name |-> Acme, client_name |-> Acme],
      [project_name |-> <<"Z","e","d"," ","R","o","l","l","o","u","t">>],
      [client_name |-> Zed] }

\* the bodies POST /api/projects/<project_id>/work-orders is given
AssignRequests ==
    { [work_order_ids |-> <<1, 2>>],
      [work_order_ids |-> <<4, 9>>] }

\* the bodies POST /api/projects/auto-create is given
AutoCreateRequests ==
    { [criteria |-> "company_and_timeframe"],
      [criteria |-> "technology"],
      [dry_run |-> FALSE] }

\* the ids of the paths
ProjectIds == 1..MaxProjects

WorkOrderIds == {1, 9}

CreateProject ==
    /\ Len(projects) < MaxProjects
    /\ \E data \in CreateRequests : create_project(data)
    /\ UNCHANGED beside_projects

AssignWorkOrdersToProject ==
    /\ \E project_id \in ProjectIds, data \in AssignRequests :
           assign_work_orders_to_project(project_id, data)
    /\ UNCHANGED beside_projects

RemoveWorkOrderFromProject ==
    /\ \E project_id \in ProjectIds, work_order_id \in WorkOrderIds :
           remove_work_order_from_project(project_id, work_order_id)
    /\ UNCHANGED beside_projects

AutoCreateProjects ==
    /\ \E data \in AutoCreateRequests : auto_create_projects(data)
    /\ UNCHANGED beside_projects

AutoCreateProjectsFromWorkOrders ==
    /\ auto_create_projects_from_work_orders
    /\ UNCHANGED beside_projects

DeleteWorkOrder ==
    /\ \E work_order_id \in WorkOrderIds : delete_work_order(work_order_id)
    /\ UNCHANGED beside_projects

ProjectInit ==
    /\ work_orders \in OrderFamilies
    /\ projects = <<>>
    /\ assignments = {}
    /\ uploads = {}
    /\ request = NoRequest
    /\ response = NoResponse
    /\ added = {}
    /\ clock = 0
    /\ semantic_model = FALSE
    /\ hash_seed = 0
    /\ components = <<>>
    /\ work_items = <<>>
    /\ job_description = <<>>
    /\ call = "none"
    /\ mode = "none"
    /\ keywords = <<>>
    /\ matches = <<>>
    /\ work_matches = <<>>
    /\ raised = FALSE
    /\ job_similarities = <<>>
    /\ fetched = FALSE
    /\ resume_text = <<>>
    /\ sectionizer = "none"
    /\ sectioned = <<>>
    /\ first_call = NoCall
    /\ calls = 0

ProjectNext ==
    \/ CreateProject
    \/ AssignWorkOrdersToProject
    \/ RemoveWorkOrderFromProject
    \/ AutoCreateProjects
    \/ AutoCreateProjectsFromWorkOrders
    \/ DeleteWorkOrder

ProjectSpec == ProjectInit /\ [][ProjectNext]_vars

\* C25: in every state the project and work order operations reach, each
\* project's stored total_work_orders is the number of work orders assigned
\* to it and its total_earnings the sum of their pay amounts.
C25_MetricsConsistent ==
    \A k \in 1..Len(projects) :
        /\ projects[k].total_work_orders
               = Cardinality({a \in assignments : a.project_id = projects[k].id})
        /\ projects[k].total_earnings
               = SumPay(work_orders, AssignedTo(assignments, projects[k].id))

\* a request of /api/projects/auto-create with the criteria of company and
\* timeframe, given or by default
ByTimeframe(req) ==
    /\ req.endpoint = "auto_create_projects"
    /\ ("criteria" \in DOMAIN req.data) => req.data.criteria = "company_and_timeframe"

\* the positions of the work orders that have a service date and no assignment
FreeOrders ==
    {k \in 1..Len(work_orders) :
        /\ ~work_orders[k].service_date.none
        /\ \A a \in assignments : a.work_order_id # work_orders[k].id}

\* the free work orders of the company, year and quarter of one of them
FreeGroup(k) ==
    {j \in FreeOrders :
        /\ work_orders[j].company_name = work_orders[k].company_name
        /\ work_orders[j].service_date.year = work_orders[k].service_date.year
        /\ (work_orders[j].service_date.month - 1) \div 3
               = (work_orders[k].service_date.month - 1) \div 3}

\* C26: auto_create_projects with the criteria company_and_timeframe creates
\* a project only for a company, year and quarter that has at least 3
\* unassigned work orders with a service date, assigns to it only unassigned
\* work orders of that group, leaves the projects and assignments there were
\* as they are, and run a second time right after, creates no project and no
\* assignment.
C26_AutoCreateIdempotent ==
    [][ByTimeframe(request') =>
           /\ SubSeq(projects', 1, Len(projects)) = projects
           /\ assignments \subseteq assignments'
           /\ \A a \in assignments' \ assignments :
                  a.project_id \in (Len(projects) + 1)..Len(projects')
           /\ \A p \in (Len(projects) + 1)..Len(projects') :
                  \E k \in FreeOrders :
                      /\ Cardinality(FreeGroup(k)) >= MinTimeframeOrders
                      /\ projects'[p].client_name = work_orders[k].company_name
                      /\ {a.work_order_id : a \in {b \in assignments' :
                                                      b.project_id = projects'[p].id}}
                             \subseteq {work_orders[j].id : j \in FreeGroup(k)}
           /\ ByTimeframe(request) => projects' = projects /\ assignments' = assignments
      ]_vars

\* auto_create_projects has run twice: the project of Acme's first quarter of
\* 2024 holds its three work orders and the last run created nothing
C26_Witness ==
    /\ ByTimeframe(request)
    /\ response = [status |-> 200, projects |-> <<>>]
    /\ \E k \in 1..Len(projects) :
           /\ projects[k].project_name = <<"A","c","m","e"," ","-"," ","Q","1"," ","2","0","2","4"," ","S","u","p","p","o","r","t">>
           /\ Cardinality({a \in assignments : a.project_id = projects[k].id}) >= 3

\* C27: after auto_create_projects_from_work_orders returns successfully,
\* every company with at least 2 work orders has a project of its own, one
\* created now with the company for client_name or one there was before, to
\* which its work orders are all assigned, also when the name of the company
\* is a part of the name of another company.
C27_CompanyProjects ==
    [][(request'.endpoint = "auto_create_projects_from_work_orders"
            /\ response'.status = 200) =>
           \A k \in 1..Len(work_orders) :
               LET members == {j \in 1..Len(work_orders) :
                                  work_orders[j].company_name = work_orders[k].company_name}
               IN  Cardinality(members) >= MinCompanyOrders =>
                       \E p \in 1..Len(projects') :
                           /\ \/ projects'[p].client_name = work_orders[k].company_name
                              \/ p <= Len(projects)
                           /\ \A j \in members :
                                  Assignment(work_orders[j].id, projects'[p].id)
                                      \in assignments'
      ]_vars

(***************************************************************************)
(* The CSV import of work orders (src/import_field_nation_data.py).  A     *)
(* file is its name, its header and its rows of cells as the file spells   *)
(* them, an empty cell being a missing value.  A stored work order is      *)
(* shown by its id and the three required columns.                         *)
(***************************************************************************)
\* column_mapping of import_csv_file
column_mapping ==
    ("Id" :> "fn_work_order_id") @@ ("ID" :> "fn_work_order_id") @@
    ("Title" :> "title") @@ ("Company" :> "company_name") @@
    ("Service Date" :> "service_date") @@ ("Type of Work" :> "work_type") @@
    ("Location" :> "location") @@ ("Pay" :> "pay_amount") @@ ("Status" :> "status") @@
    ("State" :> "state") @@ ("City" :> "city") @@ ("Zip" :> "zip_code")

\* df.rename(columns=column_mapping), for one column
Renamed(name) == IF name \in DOMAIN column_mapping THEN column_mapping[name] ELSE name

required_columns == <<"fn_work_order_id", "title", "company_name">>

\* col not in df.columns, for a required column
MissingColumn(file) ==
    \E c \in 1..Len(required_columns) :
        \A i \in 1..Len(file.header) : Renamed(file.header[i]) # required_columns[c]

\* df[name]: the cells of the column
ColumnCells(file, name) ==
    LET at == CHOOSE i \in 1..Len(file.header) : Renamed(file.header[i]) = name
    IN  [k \in 1..Len(file.rows) |-> file.rows[k][at]]

\* the cell spells an integer
IsInteger(cell) == cell # <<>> /\ \A i \in 1..Len(cell) : cell[i] \in Digits

\* str(int(cell)): the digits without leading zeros
RECURSIVE IntegerText(_)
IntegerText(cell) ==
    IF Len(cell) > 1 /\ Head(cell) = "0" THEN IntegerText(Tail(cell)) ELSE cell

\* str(row[name]) under the dtype read_csv gives the column: int64 when every
\* cell spells an integer, float64 when some of them are missing, object
\* otherwise; a missing value is NaN
CellText(cells, k) ==
    LET filled == {i \in 1..Len(cells) : cells[i] # <<>>}
        numeric == \A i \in filled : IsInteger(cells[i])
    IN  IF cells[k] = <<>> THEN <<"n","a","n">>
        ELSE IF numeric /\ filled = 1..Len(cells) THEN IntegerText(cells[k])
        ELSE IF numeric THEN IntegerText(cells[k]) \o <<".","0">>
        ELSE cells[k]

ImportedRow(id, fn_work_order_id, title, company_name) ==
    [id |-> id, fn_work_order_id |-> fn_work_order_id, title |-> title,
     company_name |-> company_name]

\* the variant that inserts the row whatever the table holds
InsertRow(table, fn_id, title, company) ==
    Append(table, ImportedRow(Len(table) + 1, fn_id, title, company))

\* SELECT id FROM work_orders WHERE fn_work_order_id = ?
AlreadyStored(table, fn_id) == \E k \in 1..Len(table) : table[k].fn_work_order_id = fn_id

\* one turn of the loop over the rows: the row is skipped when its id is
\* stored, inserted otherwise (fn_work_order_id is UNIQUE: an INSERT of a
\* stored id raises and the row is passed over)
ImportRow(table, fn_id, title, company) ==
    IF AlreadyStored(table, fn_id) THEN table
    ELSE IF \E k \in 1..Len(table) : table[k].fn_work_order_id = fn_id THEN table
    ELSE Append(table, ImportedRow(Len(table) + 1, fn_id, title, company))

RECURSIVE ImportRows(_, _, _)
ImportRows(table, file, k) ==
    IF k > Len(file.rows) THEN table
    ELSE ImportRows(ImportRow(table,
                              CellText(ColumnCells(file, "fn_work_order_id"), k),
                              CellText(ColumnCells(file, "title"), k),
                              CellText(ColumnCells(file, "company_name"), k)),
                    file, k + 1)

\* import_csv_file(file_path): the table after it and the count it returns
import_csv_file(table, file) ==
    IF MissingColumn(file) THEN [table |-> table, imported |-> 0]
    ELSE LET after == ImportRows(table, file, 1)
         IN  [table |-> after, imported |-> Len(after) - Len(table)]

\* the key of csv_files.sort: ('fn-full' in x, 'field-nation-report' in x, x)
FileBefore(a, b) ==
    LET full(x) == Contains(x, <<"f","n","-","f","u","l","l">>)
        report(x) == Contains(x, <<"f","i","e","l","d","-","n","a","t","i","o","n","-","r","e","p","o","r","t">>)
    IN  \/ ~full(a) /\ full(b)
        \/ full(a) = full(b) /\ ~report(a) /\ report(b)
        \/ full(a) = full(b) /\ report(a) = report(b) /\ TextBefore(a, b)

RECURSIVE SortedFiles(_)
SortedFiles(files) ==
    IF files = {} THEN <<>>
    ELSE LET first == CHOOSE f \in files : \A g \in files \ {f} : FileBefore(f.name, g.name)
         IN  <<first>> \o SortedFiles(files \ {first})

\* the loop of import_all_csv_files: the table after it and the results
RECURSIVE ImportFiles(_, _)
ImportFiles(table, files) ==
    IF files = <<>> THEN [table |-> table, results |-> <<>>]
    ELSE LET one == import_csv_file(table, Head(files))
             rest == ImportFiles(one.table, Tail(files))
         IN  [table |-> rest.table,
              results |-> <<[filename |-> Head(files).name, imported |-> one.imported]>>
                          \o rest.results]

CsvFile(name, header, rows) == [name |-> name, header |-> header, rows |-> rows]

\* the files of the spreadsheets directory
CsvFiles ==
    { CsvFile(<<"d","e","s","k","t","o","p",".","c","s","v">>, <<"Id", "Title", "Company">>,
              << <<<<"1","0","1">>, <<"P","C"," ","s","e","t","u","p">>, <<"A","c","m","e">>>>,
                 <<<<"1","0","2">>, <<"P","r","i","n","t","e","r">>, <<"Z","e","d">>>>,
                 <<<<"1","0","1">>, <<"P","C"," ","s","e","t","u","p">>, <<"A","c","m","e">>>> >>),
      CsvFile(<<"r","e","t","a","i","l",".","c","s","v">>, <<"ID", "Title", "Company", "Pay">>,
              << <<<<"1","0","2">>, <<"P","O","S">>, <<"Z","e","d">>, <<"$","5">>>>,
                 <<<<>>, <<"K","i","o","s","k">>, <<>>, <<>>>>,
                 <<<<>>, <<"R","e","g","i","s","t","e","r">>, <<"Z","e","d">>, <<>>>> >>),
      CsvFile(<<"f","n","-","f","u","l","l",".","c","s","v">>, <<"Company", "Id", "Title">>,
              << <<<<"A","c","m","e">>, <<"0","1","0","1">>, <<"P","C"," ","s","e","t","u","p">>>>,
                 <<<<"A","c","m","e">>, <<"1","0","3">>, <<>>>>,
                 <<<<"Z","e","d">>, <<"W","-","7">>, <<"R","o","u","t","e","r">>>> >>),
      CsvFile(<<"f","i","e","l","d","-","n","a","t","i","o","n","-","r","e","p","o","r","t",".","c","s","v">>, <<"Id", "Title", "Company">>,
              << <<<<"1","0","3">>, <<"C","a","b","l","e">>, <<"A","c","m","e">>>>,
                 <<<<"0","1","0","3">>, <<"C","a","b","l","e">>, <<"A","c","m","e">>>> >>),
      CsvFile(<<"n","o","t","e","s",".","c","s","v">>, <<"Title", "Company">>,
              << <<<<"P","C"," ","s","e","t","u","p">>, <<"A","c","m","e">>>> >>) }

\* what the import leaves alone
beside_import ==
    <<semantic_model, hash_seed, components, work_items, job_description, call, mode,
      keywords, matches, work_matches, raised, job_similarities, fetched, sectioning,
      added, clock, projects, assignments, uploads>>

\* import_csv_file(file_path)
ImportCsvFile ==
    /\ \E file \in CsvFiles :
           LET result == import_csv_file(work_orders, file)
           IN  /\ work_orders' = result.table
               /\ request' = [endpoint |-> "import_csv_file", file |-> file]
               /\ response' = [imported |-> result.imported]
    /\ UNCHANGED beside_import

\* import_all_csv_files(spreadsheets_dir), the directory holding some of the files
ImportAllCsvFiles ==
    /\ \E files \in SUBSET CsvFiles :
           LET result == ImportFiles(work_orders, SortedFiles(files))
           IN  /\ work_orders' = result.table
               /\ request' = [endpoint |-> "import_all_csv_files", files |-> files]
               /\ response' = [results |-> result.results]
    /\ UNCHANGED beside_import

ImportInit ==
    /\ work_orders = <<>>
    /\ projects = <<>>
    /\ assignments = {}
    /\ uploads = {}
    /\ request = NoRequest
    /\ response = NoResponse
    /\ added = {}
    /\ clock = 0
    /\ semantic_model = FALSE
    /\ hash_seed = 0
    /\ components = <<>>
    /\ work_items = <<>>
    /\ job_description = <<>>
    /\ call = "none"
    /\ mode = "none"
    /\ keywords = <<>>
    /\ matches = <<>>
    /\ work_matches = <<>>
    /\ raised = FALSE
    /\ job_similarities = <<>>
    /\ fetched = FALSE
    /\ resume_text = <<>>
    /\ sectionizer = "none"
    /\ sectioned = <<>>
    /\ first_call = NoCall
    /\ calls = 0

ImportNext ==
    \/ ImportCsvFile
    \/ ImportAllCsvFiles

ImportSpec == ImportInit /\ [][ImportNext]_vars

\* the texts the import gives the rows of a file for fn_work_order_id
FileIds(file) ==
    IF MissingColumn(file) THEN {}
    ELSE {CellText(ColumnCells(file, "fn_work_order_id"), k) : k \in 1..Len(file.rows)}

\* the fn_work_order_id values of the stored work orders
StoredIds(table) == {table[k].fn_work_order_id : k \in 1..Len(table)}

\* C28: the CSV import never duplicates a work order: no two stored work
\* orders share an fn_work_order_id; an import keeps the rows there were,
\* inserts none whose fn_work_order_id was stored and at most one for an id
\* of the file, so that every id of the file is stored once; and importing
\* the same file a second time inserts 0 work orders and leaves the table as
\* it is.
C28_ImportNeverDuplicates ==
    [][request'.endpoint = "import_csv_file" =>
           /\ \A i, j \in 1..Len(work_orders') :
                  i # j => work_orders'[i].fn_work_order_id # work_orders'[j].fn_work_order_id
           /\ SubSeq(work_orders', 1, Len(work_orders)) = work_orders
           /\ \A k \in (Len(work_orders) + 1)..Len(work_orders') :
                  /\ work_orders'[k].fn_work_order_id \notin StoredIds(work_orders)
                  /\ work_orders'[k].fn_work_order_id \in FileIds(request'.file)
           /\ FileIds(request'.file) \subseteq StoredIds(work_orders')
           /\ response'.imported = Len(work_orders') - Len(work_orders)
           /\ request = request' => work_orders' = work_orders /\ response'.imported = 0
      ]_vars

\* desktop.csv, whose third row repeats the id of its first, has been
\* imported when its ids were stored: the import inserted nothing
C28_Witness ==
    /\ request.endpoint = "import_csv_file"
    /\ request.file.name = <<"d","e","s","k","t","o","p",".","c","s","v">>
    /\ response.imported = 0
    /\ Len(work_orders) = 2
    /\ work_orders[1].fn_work_order_id = <<"1","0","1">>
    /\ work_orders[2].fn_work_order_id = <<"1","0","2">>

(***************************************************************************)
(* The upload endpoints (src/app.py).  An uploaded file is the form field  *)
(* it comes in, its filename and what reading it yields: a text, or None   *)
(* when the reader of its format fails.  The uploads directory is the set  *)
(* of the paths it holds.                                                  *)
(***************************************************************************)
\* ALLOWED_EXTENSIONS
ALLOWED_EXTENSIONS == {<<"t","x","t">>, <<"p","d","f">>, <<"d","o","c">>, <<"d","o","c","x">>, <<"h","t","m","l">>}

\* the formats extract_text_from_file reads
ReadableExtensions == {<<"t","x","t">>, <<"t","e","x","t">>, <<"d","o","c","x">>, <<"d","o","c">>, <<"p","d","f">>, <<"h","t","m","l">>}

\* filename.rsplit('.', 1)[1] and filename.split('.')[-1]: what follows the
\* last dot, the whole name when it has none
RECURSIVE AfterLastDot(_)
AfterLastDot(filename) ==
    IF \A i \in 1..Len(filename) : filename[i] # "." THEN filename
    ELSE AfterLastDot(Tail(filename))

\* allowed_file(filename)
allowed_file(filename) ==
    /\ \E i \in 1..Len(filename) : filename[i] = "."
    /\ Lower(AfterLastDot(filename)) \in ALLOWED_EXTENSIONS

\* secure_filename(filename): whitespace becomes an underscore, characters
\* beside letters, digits, '_', '.' and '-' are dropped
secure_filename(filename) ==
    LET spaced == [i \in 1..Len(filename) |->
                      IF filename[i] = " " THEN "_" ELSE filename[i]]
    IN  SelectSeq(List(spaced),
                  LAMBDA c : IsWordChar(c) \/ c = "." \/ c = "-")

\* extract_text_from_file(filepath, filename): the text of the file, None for
\* a format it does not read or when reading raises
extract_text_from_file(file, filename) ==
    IF Lower(AfterLastDot(filename)) \in ReadableExtensions THEN file.content ELSE None

\* len(content.strip()) < 50
MinMeaningful == 50

\* the path upload_resume saves the file under: f"{timestamp}_{filename}"
StampedPath(timestamp, filename) == [timestamp |-> Number(timestamp), filename |-> filename]

\* the path upload_resume_file saves the file under
PlainPath(filename) == [timestamp |-> None, filename |-> filename]

\* POST /api/resumes/upload
upload_resume(field, file) ==
    LET filepath == StampedPath(clock, secure_filename(file.filename))
        content == extract_text_from_file(file, file.filename)
    IN  /\ request' = [endpoint |-> "upload_resume", field |-> field, file |-> file]
        /\ IF field \notin {"resume", "file"}
           THEN /\ response' = [status |-> 400, error |-> "No file uploaded"]
                /\ uploads' = uploads
           ELSE IF file.filename = <<>>
           THEN /\ response' = [status |-> 400, error |-> "No file selected"]
                /\ uploads' = uploads
           ELSE IF ~allowed_file(file.filename)
           THEN /\ response' = [status |-> 400, error |-> "Invalid file type"]
                /\ uploads' = uploads
           ELSE IF ~Truthy(content) \/ Len(Strip(content.s)) < MinMeaningful
           THEN /\ response' = [status |-> 400, error |-> "Could not extract meaningful text"]
                /\ uploads' = (uploads \cup {filepath}) \ {filepath}
           ELSE /\ response' = [status |-> 200,
                                components |-> parse_resume_text(content.s),
                                extracted_text_length |-> Len(content.s)]
                /\ uploads' = (uploads \cup {filepath}) \ {filepath}

\* POST /upload_resume_file; saved tells whether the INSERT into
\* uploaded_resumes went through
upload_resume_file(field, file, saved) ==
    LET filename == secure_filename(file.filename)
        temp_path == PlainPath(filename)
        extracted_text == extract_text_from_file(file, filename)
    IN  /\ request' = [endpoint |-> "upload_resume_file", field |-> field, file |-> file]
        /\ IF field # "file"
           THEN /\ response' = [status |-> 200, success |-> FALSE, error |-> "No file provided"]
                /\ uploads' = uploads
           ELSE IF file.filename = <<>>
           THEN /\ response' = [status |-> 200, success |-> FALSE, error |-> "No file selected"]
                /\ uploads' = uploads
           ELSE IF filename = <<>>
           THEN /\ response' = [status |-> 200, success |-> FALSE, error |-> "Upload failed"]
                /\ uploads' = uploads
           ELSE IF ~Truthy(extracted_text) \/ Strip(extracted_text.s) = <<>>
           THEN /\ response' = [status |-> 200, success |-> FALSE,
                                error |-> "Could not extract text from file"]
                /\ uploads' = uploads \cup {temp_path}
           ELSE /\ response' = [status |-> 200, success |-> TRUE,
                                text |-> extracted_text.s, saved |-> saved]
                /\ uploads' = (uploads \cup {temp_path}) \ {temp_path}

\* a text of n letters
Letters(n) == [i \in 1..n |-> "a"]

\* the files the endpoints are sent
UploadedFiles ==
    { [filename |-> name, content |-> content] :
        name \in {<<"c","v",".","t","x","t">>, <<"m","y"," ","c","v",".","T","X","T">>, <<"c","v",".","e","x","e">>, <<>>, <<"?","?">>},
        content \in {None, Str(<<>>), Str(<<" "," ","\n"," ">>), Str(<<" ","s","h","o","r","t"," ">>),
                     Str(<<"S","k","i","l","l","s","\n">> \o Letters(MinMeaningful))} }

\* what the upload endpoints leave alone
beside_uploads ==
    <<semantic_model, hash_seed, components, work_items, job_description, call, mode,
      keywords, matches, work_matches, raised, job_similarities, fetched, sectioning,
      added, clock, work_orders, projects, assignments>>

UploadResume ==
    /\ \E field \in {"resume", "file", "photo"}, file \in UploadedFiles :
           upload_resume(field, file)
    /\ UNCHANGED beside_uploads

UploadResumeFile ==
    /\ \E field \in {"file", "resume"}, file \in UploadedFiles, saved \in BOOLEAN :
           upload_resume_file(field, file, saved)
    /\ UNCHANGED beside_uploads

UploadInit ==
    /\ uploads = {}
    /\ work_orders = <<>>
    /\ projects = <<>>
    /\ assignments = {}
    /\ request = NoRequest
    /\ response = NoResponse
    /\ added = {}
    /\ clock = 0
    /\ semantic_model = FALSE
    /\ hash_seed = 0
    /\ components = <<>>
    /\ work_items = <<>>
    /\ job_description = <<>>
    /\ call = "none"
    /\ mode = "none"
    /\ keywords = <<>>
    /\ matches = <<>>
    /\ work_matches = <<>>
    /\ raised = FALSE
    /\ job_similarities = <<>>
    /\ fetched = FALSE
    /\ resume_text = <<>>
    /\ sectionizer = "none"
    /\ sectioned = <<>>
    /\ first_call = NoCall
    /\ calls = 0

UploadNext ==
    \/ UploadResume
    \/ UploadResumeFile

UploadSpec == UploadInit /\ [][UploadNext]_vars

\* the path the request saved its file under, when it saved one
SavedBy(req) ==
    IF req.endpoint = "upload_resume"
           /\ req.field \in {"resume", "file"} /\ req.file.filename # <<>>
           /\ allowed_file(req.file.filename)
    THEN {StampedPath(clock, secure_filename(req.file.filename))}
    ELSE IF req.endpoint = "upload_resume_file"
           /\ req.field = "file" /\ secure_filename(req.file.filename) # <<>>
    THEN {PlainPath(secure_filename(req.file.filename))}
    ELSE {}

\* C29: when upload_resume or upload_resume_file has returned after it saved
\* the uploaded file, whatever the extraction gave, the file is no longer in
\* the uploads directory.
C29_UploadsTemporary == \A path \in SavedBy(request) : path \notin uploads

\* the lines parse_resume_text goes through: the text with its line endings
\* normalized and its runs of line breaks reduced, split, each line rstripped
ParsedLines(text) ==
    LET split == SplitLines(ReduceLineBreaks(NormalizeLineEndings(text)))
    IN  List([i \in 1..Len(split) |-> RStrip(split[i])])

\* the positions of the lines detected as headers
HeaderLines(lines) ==
    {i \in 1..Len(lines) :
        Strip(lines[i]) # <<>> /\ detect_section_header(Strip(lines[i]), i, lines)}

\* the position of the header that follows h, one past the last line if none
NextHeader(lines, h) ==
    LET later == {g \in HeaderLines(lines) : g > h}
    IN  IF later = {} THEN Len(lines) + 1
        ELSE CHOOSE g \in later : \A f \in later : g <= f

\* the positions of the non-blank lines between the header h and the next
BodyLines(lines, h) ==
    {i \in (h + 1)..(NextHeader(lines, h) - 1) : Strip(lines[i]) # <<>>}

\* the positions of a set, ascending
RECURSIVE Ascending(_)
Ascending(positions) ==
    IF positions = {} THEN <<>>
    ELSE LET first == CHOOSE i \in positions : \A j \in positions : i <= j
         IN  <<first>> \o Ascending(positions \ {first})

\* the header h and the non-blank lines of its body, each stripped
Outline(lines, h) ==
    LET body == Ascending(BodyLines(lines, h))
    IN  <<Strip(lines[h])>> \o List([k \in 1..Len(body) |-> Strip(lines[body[k]])])

\* the non-blank lines of a component, each stripped
OutlineOf(component) ==
    LET split == SplitLines(component)
    IN  SelectSeq(List([i \in 1..Len(split) |-> Strip(split[i])]), LAMBDA l : l # <<>>)

\* the places of the components of a result: category entry and rank in it
Placed(result) ==
    {p \in (1..Len(result)) \X (1..MaxCalls + Len(resume_text)) :
        p[2] <= Len(result[p[1]].content)}

\* C30: parse_resume_text partitions the text by its header lines: the
\* components it returns are, one for one, the detected headers that have a
\* non-blank line before the next header, each made of its header line and
\* of the lines up to the next header and filed under one category, the one
\* categorize_section gives (other_sections when no keyword matches); lines
\* before the first header, headers without content and texts without a
\* header yield no component.
C30_HeaderPartition ==
    sectionizer = "parse_resume_text" =>
        LET lines == ParsedLines(resume_text)
            filled == {h \in HeaderLines(lines) : BodyLines(lines, h) # {}}
            placed == Placed(sectioned)
            component(p) == sectioned[p[1]].content[p[2]]
        IN  /\ Cardinality(placed) = Cardinality(filled)
            /\ \A h \in filled :
                   Cardinality({p \in placed : OutlineOf(component(p)) = Outline(lines, h)})
                       = Cardinality({g \in filled : Outline(lines, g) = Outline(lines, h)})
            /\ \A p \in placed :
                   LET split == SplitLines(component(p))
                   IN  sectioned[p[1]].category
                           = categorize_section(Lower(split[1]),
                                                JoinLines(Tail(split)))
            /\ \A c, d \in 1..Len(sectioned) :
                   /\ sectioned[c].category \in
                          {ComponentCategories[k] : k \in 1..Len(ComponentCategories)}
                   /\ c # d => sectioned[c].category # sectioned[d].category

\* parse_resume_text has been given a text with a line before its first
\* header and a blank line in the body of the header: one component, the
\* header with the two lines that follow it
C30_Witness ==
    /\ sectionizer = "parse_resume_text"
    /\ resume_text = <<"v","p","n"," ","a","d","m","i","n","\n","P","r","o","f","i","l","e","\n","P","C"," ","s","u","p","p","o","r","t","\n","\n","n","o","t","e","s">>
    /\ Len(sectioned) = 1
    /\ sectioned[1].category = "professional_summary"
    /\ sectioned[1].content = <<<<"P","r","o","f","i","l","e","\n","P","C"," ","s","u","p","p","o","r","t","\n","\n","n","o","t","e","s">>>>

====
